---- MODULE Spec2Model ----
(***************************************************************************)
(* bash-tool: the invocation log codec, the file ingestion layer, the      *)
(* command execution pipeline and the toolkit orchestrator.                *)
(*                                                                         *)
(* Texts are sequences of atoms.  An atom is one character ("a", "\n",     *)
(* "'", a digit, ...) or one of the fixed words the program itself writes  *)
(* ("# ", ": ", "timestamp", "---STDOUT---", ...).  A line equals a marker *)
(* exactly when it is the one-atom sequence holding that marker word.      *)
(***************************************************************************)
EXTENDS Integers, Sequences, FiniteSets, TLC

(***************************************************************************)
(* Bounds of the model.                                                    *)
(***************************************************************************)
MaxCmd == 2
MaxOut == 2
MaxErr == 1
MaxExit == 12
MaxPaths == 3
MaxClock == 1
MaxIngest == 45

(***************************************************************************)
(* Text helpers (String.prototype.split / Array.prototype.join).           *)
(***************************************************************************)
NL == "\n"

RECURSIVE Join(_, _)
Join(lines, sep) ==
  IF Len(lines) = 0 THEN <<>>
  ELSE IF Len(lines) = 1 THEN lines[1]
  ELSE lines[1] \o <<sep>> \o Join(Tail(lines), sep)

\* The pieces between the newlines, in order; always at least one piece.
Split(text) ==
  LET n == Len(text)
      nl == SelectSeq([i \in 1..n |-> i], LAMBDA i : text[i] = NL)
      start(k) == IF k = 1 THEN 1 ELSE nl[k - 1] + 1
      stop(k) == IF k > Len(nl) THEN n ELSE nl[k] - 1
  IN [k \in 1..(Len(nl) + 1) |-> SubSeq(text, start(k), stop(k))]

SeqsUpTo(S, n) == UNION { [1..k -> S] : k \in 0..n }

(***************************************************************************)
(* Number formatting and Number.parseInt(value, 10).                       *)
(***************************************************************************)
DigitChars == <<"0", "1", "2", "3", "4", "5", "6", "7", "8", "9">>

NaN == 0 - 1000000

RECURSIVE Digits(_)
Digits(n) ==
  IF n < 10 THEN <<DigitChars[n + 1]>>
  ELSE Digits(n \div 10) \o <<DigitChars[(n % 10) + 1]>>

NumberToString(n) == IF n < 0 THEN <<"-">> \o Digits(0 - n) ELSE Digits(n)

IsDigit(c) == \E d \in 1..10 : DigitChars[d] = c

DigitValue(c) == (CHOOSE d \in 1..10 : DigitChars[d] = c) - 1

RECURSIVE ParseDigits(_, _, _, _)
ParseDigits(s, i, acc, seen) ==
  IF i <= Len(s) /\ IsDigit(s[i])
    THEN ParseDigits(s, i + 1, acc * 10 + DigitValue(s[i]), TRUE)
    ELSE IF seen THEN acc ELSE NaN

RECURSIVE SkipSpaces(_, _)
SkipSpaces(s, i) ==
  IF i <= Len(s) /\ s[i] = " " THEN SkipSpaces(s, i + 1) ELSE i

parseInt(s) ==
  LET i == SkipSpaces(s, 1)
  IN IF i <= Len(s) /\ s[i] = "-"
       THEN LET v == ParseDigits(s, i + 1, 0, FALSE)
            IN IF v = NaN THEN NaN ELSE 0 - v
       ELSE IF i <= Len(s) /\ s[i] = "+"
         THEN ParseDigits(s, i + 1, 0, FALSE)
         ELSE ParseDigits(s, i, 0, FALSE)

(***************************************************************************)
(* Invocation log codec (tools/bash.ts).                                   *)
(* An optional field is a sequence of length 0 (absent) or 1 (present).    *)
(***************************************************************************)
STDOUT_MARKER == "---STDOUT---"
STDERR_MARKER == "---STDERR---"
HASH == "# "
COLON == ": "
HeaderKeys == {"timestamp", "command", "exitCode", "outputFilter"}

Truthy(opt) == opt # <<>> /\ opt[1] # <<>>

formatInvocationLog(log) ==
  LET head == << <<HASH, "timestamp", COLON>> \o log.timestamp,
                 <<HASH, "command", COLON>> \o log.command,
                 <<HASH, "exitCode", COLON>> \o NumberToString(log.exitCode) >>
      filt == IF Truthy(log.outputFilter)
                THEN << <<HASH, "outputFilter", COLON>> \o log.outputFilter[1] >>
                ELSE <<>>
      body == << <<STDOUT_MARKER>>, log.stdout, <<STDERR_MARKER>>, log.stderr >>
  IN Join(head \o filt \o body, NL)

SubSeqFrom(s, i) == IF i > Len(s) THEN <<>> ELSE SubSeq(s, i, Len(s))

\* line.match(/^# (\w+): (.*)$/): the key is the run of word atoms after "# ".
\* A key the parser knows is one word atom; any other run is an unknown key.
HeaderMatch(line) ==
  Len(line) >= 3 /\ line[1] = HASH /\ line[2] \in HeaderKeys /\ line[3] = COLON

EmptyLog ==
  [timestamp |-> <<>>, command |-> <<>>, exitCode |-> 0,
   stdout |-> <<>>, stderr |-> <<>>, outputFilter |-> <<>>]

ParseStart ==
  [log |-> EmptyLog, section |-> "header", stdoutLines |-> <<>>,
   stderrLines |-> <<>>, hasStdoutSection |-> FALSE, hasStderrSection |-> FALSE]

ParseLine(st, line) ==
  IF line = <<STDOUT_MARKER>>
    THEN [st EXCEPT !.section = "stdout", !.hasStdoutSection = TRUE]
  ELSE IF line = <<STDERR_MARKER>>
    THEN [st EXCEPT !.section = "stderr", !.hasStderrSection = TRUE]
  ELSE IF st.section = "header" /\ Len(line) >= 1 /\ line[1] = HASH
    THEN IF HeaderMatch(line)
           THEN LET key == line[2]
                    value == SubSeqFrom(line, 4)
                IN IF key = "timestamp" THEN [st EXCEPT !.log.timestamp = value]
                   ELSE IF key = "command" THEN [st EXCEPT !.log.command = value]
                   ELSE IF key = "exitCode"
                     THEN [st EXCEPT !.log.exitCode = parseInt(value)]
                   ELSE [st EXCEPT !.log.outputFilter = <<value>>]
           ELSE st
  ELSE IF st.section = "stdout"
    THEN [st EXCEPT !.stdoutLines = Append(@, line)]
  ELSE IF st.section = "stderr"
    THEN [st EXCEPT !.stderrLines = Append(@, line)]
  ELSE st

RECURSIVE ParseLines(_, _)
ParseLines(st, lines) ==
  IF lines = <<>> THEN st ELSE ParseLines(ParseLine(st, Head(lines)), Tail(lines))

\* Variant: only the stdout section is required.
parseInvocationLog_StdoutOnly(content) ==
  LET st == ParseLines(ParseStart, Split(content))
  IN IF ~st.hasStdoutSection
       THEN [ok |-> FALSE, log |-> EmptyLog]
       ELSE [ok |-> TRUE,
             log |-> [st.log EXCEPT !.stdout = Join(st.stdoutLines, NL),
                                    !.stderr = Join(st.stderrLines, NL)]]

\* ok = FALSE stands for the thrown "Invalid invocation log format" error.
parseInvocationLog(content) ==
  LET st == ParseLines(ParseStart, Split(content))
  IN IF ~st.hasStdoutSection \/ ~st.hasStderrSection
       THEN [ok |-> FALSE, log |-> EmptyLog]
       ELSE [ok |-> TRUE,
             log |-> [st.log EXCEPT !.stdout = Join(st.stdoutLines, NL),
                                    !.stderr = Join(st.stderrLines, NL)]]

(***************************************************************************)
(* State.                                                                  *)
(***************************************************************************)
VARIABLES
  codecPc, codecLog, codecText, codecParsed,
  loadPc, optFiles, optDir, yieldedPaths, inlinePos, dirPos, yielded, filePaths,
  execPc,        \* where bash.execute / readFile.execute stands
  options,       \* the options createBashExecuteTool was given
  now,           \* the clock read by new Date()
  fs,            \* the sandbox's files: path -> content
  calls,         \* the requests the sandbox has received, in order
  input,         \* the arguments of the current execute call
  command,       \* execute's local `command`
  script,        \* executeWithFilter's locals (optional)
  outcome,       \* what the caller's command printed inside the sandbox
  raw,           \* `result` as the sandbox returned it (line 318 / 323)
  truncated,     \* `result` after truncation (line 351)
  invocationLog, \* execute's local `invocationLog` (optional)
  result,        \* execute's local `result`
  logPath,       \* execute's local `logPath` (optional)
  beforeInput,   \* the arguments onBeforeBashCall received, in call order
  afterInput,    \* the argument onAfterBashCall received (optional)
  response,      \* the value execute returned (optional)
  readPath,      \* readFile's resolved path
  readOut,       \* the values readFile.execute returned, in call order
  readInput,     \* the arguments of the current readFile.execute call
  filterResult,  \* readFile's local `filterResult` when the filter failed (optional)
  makePc, makeOpts, ingested, streamPos, batch, writeCalls, makeError,
  sandboxFiles,  \* the files the sandbox holds: the writes that have completed
  toolRuns,      \* how many times a tool of the returned toolkit has executed
  pathPc,        \* "given" before a path function has run, "resolved" / "joined" after
  pathIn,        \* the text that was handed to normalizePosixPath
  pathBase,      \* posixResolve's `base`
  pathRel,       \* posixResolve's `relativePath`
  pathOut,       \* the value posixResolve / posixJoin returned
  sbPc,          \* where createBashTool's sandbox set-up / the adapter call stands
  sbValue,       \* options.sandbox as supplied by the caller
  sbSandbox,     \* createBashTool's local `sandbox` (optional)
  sbFiles,       \* the files held by the backend: path -> content
  sbCalls,       \* the calls the backend has received, in order
  sbResult,      \* what the adapter call returned or threw (optional)
  sbInput,       \* the argument of the current adapter call (optional)
  sbRun,         \* what the backend's runCommand resolved to (optional)
  sbRead,        \* the streams of that result that have been read so far
  ftPc,          \* where the readFile / writeFile tool call stands
  ftCwd,         \* the `cwd` the two file tools were created with
  ftFiles,       \* the sandbox's files as the file tools see them: path -> content
  ftCalls,       \* the calls the file tools made on the sandbox, in order
  ftInput,       \* the arguments of the tool calls, in call order
  ftResult       \* what the tool call returned or threw (optional)

codecVars == <<codecPc, codecLog, codecText, codecParsed>>
loadVars == <<loadPc, optFiles, optDir, yieldedPaths, inlinePos, dirPos, yielded, filePaths>>
execVars == <<execPc, options, now, fs, calls, input, command, script, outcome, raw,
              truncated, invocationLog, result, logPath, afterInput, response, readPath, readOut,
              readInput, filterResult, beforeInput>>
makeVars == <<makePc, makeOpts, ingested, streamPos, batch, writeCalls, makeError,
              sandboxFiles, toolRuns>>
pathVars == <<pathPc, pathBase, pathRel, pathIn, pathOut>>
sbVars == <<sbPc, sbValue, sbSandbox, sbFiles, sbCalls, sbResult, sbInput, sbRun, sbRead>>
ftVars == <<ftPc, ftCwd, ftFiles, ftCalls, ftInput, ftResult>>
auxVars == <<pathVars, sbVars, ftVars>>
vars == <<codecVars, loadVars, execVars, makeVars, auxVars>>

toISOString(t) == <<"2024-01-15T10", ":", "30", ":">> \o Digits(t) \o <<".", "000Z">>

(***************************************************************************)
(* Codec round trip: an InvocationLog is formatted, then parsed.           *)
(***************************************************************************)
CommandAtoms == {"c", NL, "'"}
OutputAtoms == {"a", NL, STDOUT_MARKER, STDERR_MARKER}
FilterTexts == {<<"cat">>, <<"head -1">>, <<"grep ", "'", "a", "'">>, <<"nosuchfilter">>}

\* The logs the pipeline can build: a filter is recorded only when it is a
\* non-empty text (bash.ts:301), exit codes are integers.
InvocationLogs ==
  [timestamp : {toISOString(0)},
   command : SeqsUpTo(CommandAtoms, MaxCmd),
   exitCode : {0, 1, MaxExit, 0 - 1},
   stdout : SeqsUpTo(OutputAtoms, MaxOut),
   stderr : SeqsUpTo(OutputAtoms, MaxErr),
   outputFilter : {<<>>} \cup { <<f>> : f \in FilterTexts }]

CodecIdle ==
  /\ codecPc = "idle"
  /\ codecLog = EmptyLog
  /\ codecText = <<>>
  /\ codecParsed = [ok |-> FALSE, log |-> EmptyLog]

InitCodecVars ==
  /\ codecPc = "new"
  /\ codecLog \in InvocationLogs
  /\ codecText = <<>>
  /\ codecParsed = [ok |-> FALSE, log |-> EmptyLog]

Encode ==
  /\ codecPc = "new"
  /\ codecText' = formatInvocationLog(codecLog)
  /\ codecPc' = "encoded"
  /\ UNCHANGED <<codecLog, codecParsed, loadVars, execVars, makeVars, auxVars>>

Decode ==
  /\ codecPc = "encoded"
  /\ codecParsed' = parseInvocationLog(codecText)
  /\ codecPc' = "decoded"
  /\ UNCHANGED <<codecLog, codecText, loadVars, execVars, makeVars, auxVars>>

(***************************************************************************)
(* Parsing arbitrary texts: any file may be handed to parseInvocationLog.  *)
(***************************************************************************)
MaxLines == 4

\* Lines a text is made of: blank, plain, the two markers, header lines and
\* a line that only starts with a marker.
TextLines ==
  {<<>>, <<"a">>, <<STDOUT_MARKER>>, <<STDERR_MARKER>>,
   <<HASH, "command", COLON, "c">>, <<HASH, "exitCode", COLON, "1">>,
   <<STDOUT_MARKER, "a">>}

ParseTexts == { Join(ls, NL) : ls \in SeqsUpTo(TextLines, MaxLines) }

InitParseVars ==
  /\ codecPc = "encoded"
  /\ codecLog = EmptyLog
  /\ codecText \in ParseTexts
  /\ codecParsed = [ok |-> FALSE, log |-> EmptyLog]

(***************************************************************************)
(* File ingestion (files/loader.ts).                                       *)
(* options.files is an object: an ordered list of entries with distinct    *)
(* keys.  fast-glob returns each matching path once.                       *)
(***************************************************************************)
Paths == 1..MaxPaths
InlineContents == {"x", "y"}

Range(s) == { s[i] : i \in 1..Len(s) }
Injective(s) == \A i, j \in 1..Len(s) : i # j => s[i] # s[j]
PathSeqs == { s \in SeqsUpTo(Paths, MaxPaths) : Injective(s) }

FileObjects ==
  UNION { [1..Len(ps) -> InlineContents] \X {ps} : ps \in PathSeqs }

\* Buffer.from(text): the UTF-8 bytes of an inline text.
BufferFrom(text) == <<"utf8", text>>
\* fs.readFile(absolutePath): the bytes stored on disk at that path.
DiskBytes(p) == <<"disk", p>>

ObjectKeys(obj) == obj[2]
ObjectEntries(obj) == [i \in 1..Len(obj[2]) |-> [key |-> obj[2][i], value |-> obj[1][i]]]

LoadIdle ==
  /\ loadPc = "idle"
  /\ optFiles = <<>>
  /\ optDir = <<>>
  /\ yieldedPaths = {}
  /\ inlinePos = 0
  /\ dirPos = 0
  /\ yielded = <<>>
  /\ filePaths = <<>>

InitLoadVars ==
  /\ loadPc = "inline"
  /\ optFiles \in {<<>>} \cup { <<o>> : o \in FileObjects }
  /\ optDir \in {<<>>} \cup { <<fp>> : fp \in PathSeqs }
  /\ yieldedPaths = {}
  /\ inlinePos = 0
  /\ dirPos = 0
  /\ yielded = <<>>
  /\ filePaths = <<>>

InlineEntries == IF optFiles = <<>> THEN <<>> ELSE ObjectEntries(optFiles[1])
FoundPaths == IF optDir = <<>> THEN <<>> ELSE optDir[1]

\* streamFiles, inline loop: one iteration (add to yieldedPaths, yield).
StreamInlineWith(entry) ==
  /\ yieldedPaths' = yieldedPaths \cup {entry.key}
  /\ yielded' = Append(yielded, [path |-> entry.key, content |-> BufferFrom(entry.value)])

StreamInline ==
  /\ loadPc = "inline"
  /\ inlinePos < Len(InlineEntries)
  /\ inlinePos' = inlinePos + 1
  /\ StreamInlineWith(InlineEntries[inlinePos + 1])
  /\ UNCHANGED <<loadPc, optFiles, optDir, dirPos, filePaths, codecVars, execVars, makeVars, auxVars>>

\* streamFiles: the inline loop is over; fast-glob lists the directory.
StreamGlob ==
  /\ loadPc = "inline"
  /\ inlinePos = Len(InlineEntries)
  /\ loadPc' = "dir"
  /\ UNCHANGED <<optFiles, optDir, yieldedPaths, inlinePos, dirPos, yielded, filePaths, codecVars, execVars, makeVars, auxVars>>

\* streamFiles, directory loop: one iteration (skip a claimed path or read and yield).
StreamDirWith_NoSkip(relativePath) ==
  yielded' = Append(yielded, [path |-> relativePath, content |-> DiskBytes(relativePath)])

StreamDirWith(relativePath) ==
  IF relativePath \in yieldedPaths
    THEN yielded' = yielded
    ELSE yielded' = Append(yielded, [path |-> relativePath, content |-> DiskBytes(relativePath)])

StreamDir ==
  /\ loadPc = "dir"
  /\ dirPos < Len(FoundPaths)
  /\ dirPos' = dirPos + 1
  /\ StreamDirWith(FoundPaths[dirPos + 1])
  /\ UNCHANGED <<loadPc, optFiles, optDir, yieldedPaths, inlinePos, filePaths, codecVars, execVars, makeVars, auxVars>>

StreamEnd ==
  /\ loadPc = "dir"
  /\ dirPos = Len(FoundPaths)
  /\ loadPc' = "streamed"
  /\ UNCHANGED <<optFiles, optDir, yieldedPaths, inlinePos, dirPos, yielded, filePaths, codecVars, execVars, makeVars, auxVars>>

RECURSIVE PushMissing(_, _)
PushMissing(paths, keys) ==
  IF keys = <<>> THEN paths
  ELSE PushMissing(IF Head(keys) \in Range(paths) THEN paths ELSE Append(paths, Head(keys)),
                   Tail(keys))

getFilePaths_DirOnly(files, dir) ==
  IF dir # <<>> THEN dir[1]
  ELSE IF files # <<>> THEN ObjectKeys(files[1]) ELSE <<>>

getFilePaths(files, dir) ==
  LET fromDir == IF dir # <<>> THEN dir[1] ELSE <<>>
  IN IF files # <<>> THEN PushMissing(fromDir, ObjectKeys(files[1])) ELSE fromDir

GetFilePaths ==
  /\ loadPc = "streamed"
  /\ filePaths' = getFilePaths(optFiles, optDir)
  /\ loadPc' = "done"
  /\ UNCHANGED <<optFiles, optDir, yieldedPaths, inlinePos, dirPos, yielded, codecVars, execVars, makeVars, auxVars>>

(***************************************************************************)
(* Command execution pipeline (tools/bash.ts).                             *)
(***************************************************************************)
DEFAULT_MAX_OUTPUT_LENGTH == 30000
DEFAULT_INVOCATION_LOG_PATH == <<".bash-tool/commands">>
DEFAULT_DESTINATION == <<"/workspace">>

Min(a, b) == IF a < b THEN a ELSE b

\* String.prototype.replace with a one-character global pattern.
RECURSIVE ReplaceAll(_, _, _)
ReplaceAll(text, from, to) ==
  IF text = <<>> THEN <<>>
  ELSE (IF Head(text) \in from THEN to ELSE <<Head(text)>>) \o ReplaceAll(Tail(text), from, to)

\* nodePath.posix.join on already normalized parts.
PathJoin(a, b) == a \o <<"/">> \o b

generateInvocationFilename(t) ==
  ReplaceAll(toISOString(t), {":"}, <<"-">>) \o <<".invocation">>

truncateOutput_Strict(output, maxLength, streamName) ==
  IF Len(output) < maxLength THEN output
  ELSE SubSeq(output, 1, maxLength)
         \o <<NL, NL, "[", streamName, " truncated: ">>
         \o NumberToString(Len(output) - maxLength)
         \o <<" characters removed]">>

truncateOutput(output, maxLength, streamName) ==
  IF Len(output) <= maxLength THEN output
  ELSE SubSeq(output, 1, maxLength)
         \o <<NL, NL, "[", streamName, " truncated: ">>
         \o NumberToString(Len(output) - maxLength)
         \o <<" characters removed]">>

maxOutputLength ==
  IF options.maxOutputLength = <<>> THEN DEFAULT_MAX_OUTPUT_LENGTH
  ELSE options.maxOutputLength[1]

\* The hooks a caller may install: absent, returning nothing, or returning a
\* replacement.
HookKinds == {"absent", "nothing", "replace"}
ReplacementCommand == <<"r">>

onBeforeBashCall(kind, cmd) ==
  IF kind = "replace" THEN <<[command |-> ReplacementCommand]>> ELSE <<>>

onAfterBashCall(kind, arg) ==
  IF kind = "replace"
    THEN <<[result |-> [arg.result EXCEPT !.stdout = <<"modified: ">> \o @]]>>
    ELSE <<>>

(***************************************************************************)
(* The sandbox: a POSIX shell over a file system.  The caller's command is *)
(* an opaque program with some outcome; the filters are small programs.    *)
(***************************************************************************)
\* Output of the command: short texts of letters and newlines, and one text
\* that carries a marker line of the log format.
ExecOutputAtoms == {"a", NL}
ExecStdouts == SeqsUpTo(ExecOutputAtoms, MaxOut) \cup {<<STDERR_MARKER, NL>>}
\* Diagnostics of the command: none, or MaxErr characters.
ExecStderrs == {<<>>, [i \in 1..MaxErr |-> "e"]}
Outcomes == [stdout : ExecStdouts, stderr : ExecStderrs, exitCode : {0, 1}]
ExecCommands == {<<"c">>, <<"c", "'">>}

EndsWithNL(text) == text # <<>> /\ text[Len(text)] = NL

\* The lines of a text file: a final newline ends the last line.
Lines(text) ==
  LET s == Split(text)
  IN IF s[Len(s)] = <<>> THEN SubSeq(s, 1, Len(s) - 1) ELSE s

\* Writes lines back; the last one keeps the missing newline of its source.
Unlines(lines, terminated) ==
  IF lines = <<>> THEN <<>>
  ELSE Join(lines, NL) \o (IF terminated THEN <<NL>> ELSE <<>>)

FilterRun(filter, text) ==
  LET ls == Lines(text)
      hasA(l) == \E i \in 1..Len(l) : l[i] = "a"
      kept == SelectSeq(ls, hasA)
      keptLast == ls # <<>> /\ hasA(ls[Len(ls)])
  IN IF filter = <<"cat">>
       THEN [stdout |-> text, stderr |-> <<>>, exitCode |-> 0]
     ELSE IF filter = <<"head -1">>
       THEN [stdout |-> IF ls = <<>> THEN <<>>
                        ELSE Unlines(<<ls[1]>>, Len(ls) > 1 \/ EndsWithNL(text)),
             stderr |-> <<>>, exitCode |-> 0]
     ELSE IF filter = <<"grep ", "'", "a", "'">>
       THEN [stdout |-> Unlines(kept, TRUE), stderr |-> <<>>,
             exitCode |-> IF kept = <<>> THEN 1 ELSE 0]
     ELSE [stdout |-> <<>>, stderr |-> <<"sh: not found", NL>>, exitCode |-> 127]

\* sed -n '/^---STDOUT---$/,/^---STDERR---$/{ /^---STDOUT---$/d; /^---STDERR---$/d; p }'
RECURSIVE SedRange(_, _, _)
SedRange(lines, i, inRange) ==
  IF i > Len(lines) THEN <<>>
  ELSE IF ~inRange
    THEN SedRange(lines, i + 1, lines[i] = <<STDOUT_MARKER>>)
  ELSE IF lines[i] = <<STDERR_MARKER>>
    THEN SedRange(lines, i + 1, FALSE)
  ELSE IF lines[i] = <<STDOUT_MARKER>>
    THEN SedRange(lines, i + 1, TRUE)
  ELSE <<i>> \o SedRange(lines, i + 1, TRUE)

SedExtract(text) ==
  LET ls == Lines(text)
      picked == SedRange(ls, 1, FALSE)
      out == [k \in 1..Len(picked) |-> ls[picked[k]]]
  IN Unlines(out, picked = <<>> \/ picked[Len(picked)] < Len(ls) \/ EndsWithNL(text))

WriteFile(files, path, content) ==
  [p \in DOMAIN files \cup {path} |-> IF p = path THEN content ELSE files[p]]

NoFiles == [p \in {} |-> <<>>]

(***************************************************************************)
(* bash.execute, cut at its awaits.                                        *)
(***************************************************************************)
cwd == options.cwd
logDirOf(opts) == PathJoin(opts.cwd, opts.invocationLogPath)

\* command.replace(/'/g, "'\\''")
EscapeQuotes(text) == ReplaceAll(text, {"'"}, <<"'", "\\", "'", "'">>)

\* What the shell makes of the inside of a double-quoted word: a backslash
\* is dropped only before $, " and \ (and the backquote, which no text of
\* the model holds).
RECURSIVE DoubleQuoted(_)
DoubleQuoted(text) ==
  IF text = <<>> THEN <<>>
  ELSE IF Head(text) = "\\" /\ Len(text) >= 2 /\ text[2] \in {"$", "\"", "\\"}
    THEN <<text[2]>> \o DoubleQuoted(Tail(Tail(text)))
  ELSE <<Head(text)>> \o DoubleQuoted(Tail(text))

DirectCommandText_NoCd(dir, cmd) == cmd

DirectCommandText(dir, cmd) == <<"cd \"">> \o dir \o <<"\" && ">> \o cmd

MkdirText(dir) == <<"mkdir -p \"">> \o dir \o <<"\"">>

\* The script text built by executeWithFilter.
ScriptText(dir, cmd, filter, timestamp, log) ==
  LET tempId == ReplaceAll(timestamp, {":", "."}, <<"-">>)
      tmpStdout == <<"/tmp/bash-tool-stdout-">> \o tempId
      tmpStderr == <<"/tmp/bash-tool-stderr-">> \o tempId
      q(path) == <<"\"">> \o path \o <<"\"">>
      run == <<NL, "# Run command and capture output", NL>>
               \o <<"cd \"">> \o dir \o <<"\" && ">> \o cmd
               \o <<" > ">> \o q(tmpStdout) \o <<" 2> ">> \o q(tmpStderr)
               \o <<NL, "cmd_exit=$?", NL>>
      append(path) == <<" >> ">> \o q(path) \o <<NL>>
      logging ==
        IF log = <<>> THEN <<>>
        ELSE <<NL, "# Write invocation log", NL>>
               \o <<"mkdir -p ">> \o q(log[1].logDir) \o <<NL>>
               \o <<"cat > ">> \o q(log[1].logPath) \o <<" << 'INVOCATION_HEADER'", NL>>
               \o <<HASH, "timestamp", COLON>> \o timestamp \o <<NL>>
               \o <<HASH, "command", COLON>> \o EscapeQuotes(cmd) \o <<NL>>
               \o <<"INVOCATION_HEADER", NL>>
               \o <<"echo \"", HASH, "exitCode", COLON, "$cmd_exit", "\"">> \o append(log[1].logPath)
               \o <<"echo \"", HASH, "outputFilter", COLON>> \o EscapeQuotes(filter)
                    \o <<"\"">> \o append(log[1].logPath)
               \o <<"echo \"", STDOUT_MARKER, "\"">> \o append(log[1].logPath)
               \o <<"cat ">> \o q(tmpStdout) \o append(log[1].logPath)
               \o <<"echo \"", STDERR_MARKER, "\"">> \o append(log[1].logPath)
               \o <<"cat ">> \o q(tmpStderr) \o append(log[1].logPath)
      finish == <<NL, "# Output filtered stdout", NL>>
                  \o <<"cat ">> \o q(tmpStdout) \o <<" | ">> \o filter
                  \o <<NL, "filter_exit=$?", NL, NL, "# Output original stderr to stderr", NL>>
                  \o <<"cat ">> \o q(tmpStderr) \o <<" >&2", NL, NL, "# Clean up", NL>>
                  \o <<"rm -f ">> \o q(tmpStdout) \o <<" ">> \o q(tmpStderr)
                  \o <<NL, NL, "# Exit with filter exit code if filter failed, otherwise original exit code", NL,
                       "if [ $filter_exit -ne 0 ]; then", NL, "  exit $filter_exit", NL, "fi", NL,
                       "exit $cmd_exit", NL>>
  IN run \o logging \o finish

\* Variant: the header records the exit code the script itself ends with.
ScriptLogContent_FinalExit(cmd, filter, timestamp, out) ==
  <<HASH, "timestamp", COLON>> \o timestamp \o <<NL>>
    \o <<HASH, "command", COLON>> \o EscapeQuotes(cmd) \o <<NL>>
    \o <<HASH, "exitCode", COLON>>
    \o NumberToString(IF FilterRun(filter, out.stdout).exitCode # 0
                        THEN FilterRun(filter, out.stdout).exitCode ELSE out.exitCode)
    \o <<NL>>
    \o <<HASH, "outputFilter", COLON>> \o DoubleQuoted(EscapeQuotes(filter)) \o <<NL>>
    \o <<STDOUT_MARKER, NL>> \o out.stdout
    \o <<STDERR_MARKER, NL>> \o out.stderr

\* What the script's log-writing statements leave in the log file: the
\* here-document body verbatim, then one echo line or one cat per statement.
ScriptLogContent(cmd, filter, timestamp, out) ==
  <<HASH, "timestamp", COLON>> \o timestamp \o <<NL>>
    \o <<HASH, "command", COLON>> \o EscapeQuotes(cmd) \o <<NL>>
    \o <<HASH, "exitCode", COLON>> \o NumberToString(out.exitCode) \o <<NL>>
    \o <<HASH, "outputFilter", COLON>> \o DoubleQuoted(EscapeQuotes(filter)) \o <<NL>>
    \o <<STDOUT_MARKER, NL>> \o out.stdout
    \o <<STDERR_MARKER, NL>> \o out.stderr

\* Variant: the script always exits as the command did.
ScriptResult_CommandExit(filter, out) ==
  LET f == FilterRun(filter, out.stdout)
  IN [stdout |-> f.stdout,
      stderr |-> f.stderr \o out.stderr,
      exitCode |-> out.exitCode]

\* What the script prints and how it exits: the filter runs (and writes its
\* diagnostics) before the captured stderr is replayed.
ScriptResult(filter, out) ==
  LET f == FilterRun(filter, out.stdout)
  IN [stdout |-> f.stdout,
      stderr |-> f.stderr \o out.stderr,
      exitCode |-> IF f.exitCode # 0 THEN f.exitCode ELSE out.exitCode]

NoResult == [stdout |-> <<>>, stderr |-> <<>>, exitCode |-> 0]

Request(op, text) == [op |-> op, text |-> text, files |-> <<>>]
WriteRequest(files) == [op |-> "writeFiles", text |-> <<>>, files |-> files]

\* Variant: the after-hook runs on the sandbox's result, truncation follows.
Finish_HookFirst(res, lp) ==
  LET bounded == [res EXCEPT !.stdout = truncateOutput(res.stdout, maxOutputLength, "stdout"),
                             !.stderr = truncateOutput(res.stderr, maxOutputLength, "stderr")]
      arg == [command |-> command, result |-> res]
      after == IF options.onAfterBashCall = "absent" THEN <<>>
               ELSE onAfterBashCall(options.onAfterBashCall, arg)
      final == IF after # <<>> THEN after[1].result ELSE bounded
  IN /\ raw' = res
     /\ truncated' = bounded
     /\ afterInput' = IF options.onAfterBashCall = "absent" THEN <<>> ELSE <<arg>>
     /\ result' = final
     /\ response' = <<[stdout |-> final.stdout, stderr |-> final.stderr,
                       exitCode |-> final.exitCode, invocationLogPath |-> lp]>>
     /\ execPc' = "done"

\* Variant: a result replaced by the after-hook is returned as it is.
Finish_HookDropsPath(res, lp) ==
  LET bounded == [res EXCEPT !.stdout = truncateOutput(res.stdout, maxOutputLength, "stdout"),
                             !.stderr = truncateOutput(res.stderr, maxOutputLength, "stderr")]
      arg == [command |-> command, result |-> bounded]
      after == IF options.onAfterBashCall = "absent" THEN <<>>
               ELSE onAfterBashCall(options.onAfterBashCall, arg)
      final == IF after # <<>> THEN after[1].result ELSE bounded
  IN /\ raw' = res
     /\ truncated' = bounded
     /\ afterInput' = IF options.onAfterBashCall = "absent" THEN <<>> ELSE <<arg>>
     /\ result' = final
     /\ response' = <<[stdout |-> final.stdout, stderr |-> final.stderr,
                       exitCode |-> final.exitCode,
                       invocationLogPath |-> IF after # <<>> THEN <<>> ELSE lp]>>
     /\ execPc' = "done"

\* Lines 346-366: truncation, after-hook, response assembly.
Finish(res, lp) ==
  LET bounded == [res EXCEPT !.stdout = truncateOutput(res.stdout, maxOutputLength, "stdout"),
                             !.stderr = truncateOutput(res.stderr, maxOutputLength, "stderr")]
      arg == [command |-> command, result |-> bounded]
      after == IF options.onAfterBashCall = "absent" THEN <<>>
               ELSE onAfterBashCall(options.onAfterBashCall, arg)
      final == IF after # <<>> THEN after[1].result ELSE bounded
  IN /\ raw' = res
     /\ truncated' = bounded
     /\ afterInput' = IF options.onAfterBashCall = "absent" THEN <<>> ELSE <<arg>>
     /\ result' = final
     /\ response' = <<[stdout |-> final.stdout, stderr |-> final.stderr,
                       exitCode |-> final.exitCode, invocationLogPath |-> lp]>>
     /\ execPc' = "done"

\* Variant: the before-hook's answer is ignored.
CommandToRun_Original(before, originalCommand) == originalCommand

\* Lines 288-294: the hook's replacement, if it returned one.
CommandToRun(before, originalCommand) ==
  IF before # <<>> THEN before[1].command ELSE originalCommand

FilterArgs == {<<>>, << <<>> >>} \cup { <<f>> : f \in FilterTexts }

\* Lines 286-323 / 376-444: before-hook, then the first sandbox request.
BashExecuteWith(commands, filters) ==
  /\ execPc = "idle"
  /\ \E originalCommand \in commands, outputFilter \in filters :
     \E t1 \in now..(IF options.enableInvocationLog /\ Truthy(outputFilter)
                       THEN Min(now + 1, MaxClock) ELSE now) :
     \E t2 \in t1..(IF Truthy(outputFilter) THEN Min(t1 + 1, MaxClock) ELSE t1) :
       LET before == IF options.onBeforeBashCall = "absent" THEN <<>>
                     ELSE onBeforeBashCall(options.onBeforeBashCall, originalCommand)
           cmd == CommandToRun(before, originalCommand)
           log == IF options.enableInvocationLog
                    THEN <<[logDir |-> logDirOf(options),
                            logPath |-> PathJoin(logDirOf(options), generateInvocationFilename(t1))]>>
                    ELSE <<>>
       IN /\ input' = [command |-> originalCommand, outputFilter |-> outputFilter]
          /\ beforeInput' = IF options.onBeforeBashCall = "absent" THEN beforeInput
                             ELSE Append(beforeInput, [command |-> originalCommand])
          /\ command' = cmd
          /\ now' = t2
          /\ IF Truthy(outputFilter)
               THEN /\ script' = <<[timestamp |-> toISOString(t2), log |-> log]>>
                    /\ calls' = Append(calls, Request("executeCommand",
                                  ScriptText(cwd, cmd, outputFilter[1], toISOString(t2), log)))
                    /\ execPc' = "awaitScript"
               ELSE /\ script' = <<>>
                    /\ calls' = Append(calls, Request("executeCommand", DirectCommandText(cwd, cmd)))
                    /\ execPc' = "awaitExec"
  /\ UNCHANGED <<options, fs, outcome, raw, truncated, invocationLog, result, logPath,
                 afterInput, response, readPath, readOut, readInput, filterResult>>

BashExecute == BashExecuteWith(ExecCommands, FilterArgs)

\* Lines 323-344: the command has run; either log it or finish.
CommandReturnsWith(outcomes) ==
  /\ execPc = "awaitExec"
  /\ \E out \in outcomes :
     \E t1 \in now..(IF options.enableInvocationLog THEN Min(now + 1, MaxClock) ELSE now) :
     \E t2 \in t1..(IF options.enableInvocationLog THEN Min(t1 + 1, MaxClock) ELSE t1) :
       /\ outcome' = out
       /\ now' = t2
       /\ IF options.enableInvocationLog
            THEN /\ invocationLog' = <<[timestamp |-> toISOString(t1), command |-> command,
                                        exitCode |-> out.exitCode, stdout |-> out.stdout,
                                        stderr |-> out.stderr, outputFilter |-> <<>>]>>
                 /\ logPath' = <<PathJoin(logDirOf(options), generateInvocationFilename(t2))>>
                 /\ result' = out
                 /\ raw' = out
                 /\ calls' = Append(calls, Request("executeCommand", MkdirText(logDirOf(options))))
                 /\ execPc' = "awaitMkdir"
                 /\ UNCHANGED <<truncated, afterInput, response>>
            ELSE /\ Finish(out, <<>>)
                 /\ UNCHANGED <<invocationLog, logPath, calls>>
  /\ UNCHANGED <<options, fs, input, command, script, readPath, readOut, readInput, filterResult, beforeInput>>

CommandReturns == CommandReturnsWith(Outcomes)

\* Lines 339-342: mkdir -p has returned; the log is handed to writeFiles.
MkdirReturns ==
  /\ execPc = "awaitMkdir"
  /\ calls' = Append(calls, WriteRequest(<<[path |-> logPath[1],
                                             content |-> formatInvocationLog(invocationLog[1])]>>))
  /\ execPc' = "awaitWrite"
  /\ UNCHANGED <<options, now, fs, input, command, script, outcome, raw, truncated,
                 invocationLog, result, logPath, afterInput, response, readPath, readOut, readInput, filterResult, beforeInput>>

\* Lines 340-366: the sandbox stores the log; the call finishes.
WriteFilesReturns ==
  /\ execPc = "awaitWrite"
  /\ LET req == calls[Len(calls)]
     IN fs' = WriteFile(fs, req.files[1].path, req.files[1].content)
  /\ Finish(result, logPath)
  /\ UNCHANGED <<options, now, calls, input, command, script, outcome, invocationLog, logPath, readPath, readOut, readInput, filterResult, beforeInput>>

\* Lines 444-449, 318-319, 346-366: the script has run; the call finishes.
ScriptReturnsWith(outcomes) ==
  /\ execPc = "awaitScript"
  /\ \E out \in outcomes :
       LET lp == IF script[1].log # <<>> THEN <<script[1].log[1].logPath>> ELSE <<>>
       IN /\ outcome' = out
          /\ fs' = IF script[1].log # <<>>
                     THEN WriteFile(fs, script[1].log[1].logPath,
                            ScriptLogContent(command, input.outputFilter[1], script[1].timestamp, out))
                     ELSE fs
          /\ logPath' = lp
          /\ Finish(ScriptResult(input.outputFilter[1], out), lp)
  /\ UNCHANGED <<options, now, calls, input, command, script, invocationLog, readPath, readOut, readInput, filterResult, beforeInput>>

ScriptReturns == ScriptReturnsWith(Outcomes)

\* Variant: a rejected request is sent once more.
SandboxRejects_Retry ==
  /\ execPc \in {"awaitExec", "awaitScript", "awaitMkdir", "awaitWrite"}
  /\ Len(calls) <= 3
  /\ calls' = Append(calls, calls[Len(calls)])
  /\ UNCHANGED <<execPc, options, now, fs, input, command, script, outcome, raw, truncated,
                 invocationLog, result, logPath, afterInput, response, readPath, readOut,
                 readInput, filterResult, beforeInput>>

\* A sandbox request rejects: no await of execute sits in a try block, so
\* the error leaves execute and nothing more is sent.
SandboxRejects ==
  /\ execPc \in {"awaitExec", "awaitScript", "awaitMkdir", "awaitWrite"}
  /\ execPc' = "failed"
  /\ UNCHANGED <<options, now, fs, calls, input, command, script, outcome, raw, truncated,
                 invocationLog, result, logPath, afterInput, response, readPath, readOut,
                 readInput, filterResult, beforeInput>>

(***************************************************************************)
(* readFile.execute on an invocation log, cut at its awaits.               *)
(***************************************************************************)
isInvocationFile(filePath) == filePath # <<>> /\ filePath[Len(filePath)] = ".invocation"

parseInvocationContent(content) ==
  LET parsed == parseInvocationLog(content)
  IN IF parsed.ok THEN parsed.log.stdout ELSE content

SedCommandText(dir, filePath) ==
  <<"cd \"">> \o dir \o <<"\" && sed -n '/^">> \o <<STDOUT_MARKER>> \o <<"$/,/^">>
    \o <<STDERR_MARKER>> \o <<"$/{ /^">> \o <<STDOUT_MARKER>> \o <<"$/d; /^">>
    \o <<STDERR_MARKER>> \o <<"$/d; p }' \"">> \o filePath \o <<"\"">>

\* applyFilterToInvocationFile, line 301: extraction piped through the filter.
FilterCommandText_Rerun(dir, filePath, filter) ==
  DirectCommandText(dir, command) \o <<" | ">> \o filter

FilterCommandText(dir, filePath, filter) ==
  SedCommandText(dir, filePath) \o <<" | ">> \o filter

NoReadInput == [path |-> <<>>, outputFilter |-> <<>>]

ReadResult(content) ==
  [content |-> content,
   error |-> IF filterResult = <<>> THEN <<>> ELSE <<filterResult[1].error>>]

\* Lines 363-390: readFile.execute is called on an invocation log and sends
\* its first request.  An absolute path resolves to itself.
ReadFileWith(paths, filters, maxReads) ==
  /\ execPc \in {"done", "stored", "read"}
  /\ Len(readOut) < maxReads
  /\ \E path \in paths, outputFilter \in filters :
       /\ isInvocationFile(path)
       /\ readPath' = path
       /\ readInput' = [path |-> path, outputFilter |-> outputFilter]
       /\ filterResult' = <<>>
       /\ IF Truthy(outputFilter)
            THEN /\ calls' = Append(calls, Request("executeCommand",
                                 FilterCommandText(cwd, path, outputFilter[1])))
                 /\ execPc' = "awaitFilter"
            ELSE /\ calls' = Append(calls, Request("executeCommand", SedCommandText(cwd, path)))
                 /\ execPc' = "awaitSed"
  /\ UNCHANGED <<options, now, fs, input, command, script, outcome, raw, truncated,
                 invocationLog, result, logPath, afterInput, response, readOut, beforeInput>>

\* The caller reads, unfiltered, the log whose path the last execute call
\* returned.
ReadFile ==
  /\ execPc = "done"
  /\ response[1].invocationLogPath # <<>>
  /\ ReadFileWith({response[1].invocationLogPath[1]}, {<<>>}, 1)

\* What `sed ... | filter` prints and how it exits: the pipeline exits as
\* the filter does; where sed cannot run the filter reads nothing.
SED_ERROR == <<"sed: not found", NL>>

PipelineResult(filter, content, sedRuns) ==
  LET f == FilterRun(filter, IF sedRuns THEN SedExtract(content) ELSE <<>>)
  IN [f EXCEPT !.stderr = (IF sedRuns THEN <<>> ELSE SED_ERROR) \o @]

\* Lines 303-312, 376-385: the filter pipeline has returned.
FilterReturns ==
  /\ execPc = "awaitFilter"
  /\ readPath \in DOMAIN fs
  /\ \E sedRuns \in BOOLEAN :
       LET res == PipelineResult(readInput.outputFilter[1], fs[readPath], sedRuns)
       IN IF res.exitCode # 0
            THEN /\ filterResult' = <<[content |-> <<>>,
                                       error |-> <<"Filter error: ">> \o res.stderr]>>
                 /\ calls' = Append(calls, Request("executeCommand", SedCommandText(cwd, readPath)))
                 /\ execPc' = "awaitSed"
                 /\ readOut' = readOut
            ELSE /\ readOut' = Append(readOut, [content |-> res.stdout, error |-> <<>>])
                 /\ execPc' = "read"
                 /\ UNCHANGED <<filterResult, calls>>
  /\ UNCHANGED <<options, now, fs, input, command, script, outcome, raw, truncated,
                 invocationLog, result, logPath, afterInput, response, readPath, readInput,
                 beforeInput>>

\* extractInvocationStdout: sed has returned.  It fails where the sandbox has
\* no sed, the working directory or the file is missing.
SedReturns ==
  /\ execPc = "awaitSed"
  /\ \E sedRuns \in BOOLEAN :
       IF sedRuns /\ readPath \in DOMAIN fs
         THEN /\ readOut' = Append(readOut, ReadResult(SedExtract(fs[readPath])))
              /\ execPc' = "read"
              /\ calls' = calls
         ELSE /\ calls' = Append(calls, [op |-> "readFile", text |-> readPath, files |-> <<>>])
              /\ execPc' = "awaitRead"
              /\ readOut' = readOut
  /\ UNCHANGED <<options, now, fs, input, command, script, outcome, raw, truncated,
                 invocationLog, result, logPath, afterInput, response, readPath,
                 readInput, filterResult, beforeInput>>

\* extractInvocationStdout: the fallback read has returned.
FallbackReadReturns ==
  /\ execPc = "awaitRead"
  /\ readPath \in DOMAIN fs
  /\ readOut' = Append(readOut, ReadResult(parseInvocationContent(fs[readPath])))
  /\ execPc' = "read"
  /\ UNCHANGED <<options, now, fs, calls, input, command, script, outcome, raw, truncated,
                 invocationLog, result, logPath, afterInput, response, readPath,
                 readInput, filterResult, beforeInput>>

ToolOptions ==
  [cwd : {DEFAULT_DESTINATION, <<"/app">>},
   maxOutputLength : {<<>>, <<1>>, <<MaxOut>>},
   enableInvocationLog : BOOLEAN,
   invocationLogPath : {DEFAULT_INVOCATION_LOG_PATH},
   onBeforeBashCall : HookKinds,
   onAfterBashCall : HookKinds]

ExecStart ==
  /\ now = 0
  /\ fs = NoFiles
  /\ calls = <<>>
  /\ input = [command |-> <<>>, outputFilter |-> <<>>]
  /\ command = <<>>
  /\ script = <<>>
  /\ outcome = NoResult
  /\ raw = NoResult
  /\ truncated = NoResult
  /\ invocationLog = <<>>
  /\ result = NoResult
  /\ logPath = <<>>
  /\ afterInput = <<>>
  /\ response = <<>>
  /\ readOut = <<>>
  /\ readPath = <<>>
  /\ readInput = NoReadInput
  /\ filterResult = <<>>
  /\ beforeInput = <<>>

ExecIdle ==
  /\ execPc = "off"
  /\ options = [cwd |-> DEFAULT_DESTINATION, maxOutputLength |-> <<>>,
                enableInvocationLog |-> FALSE,
                invocationLogPath |-> DEFAULT_INVOCATION_LOG_PATH,
                onBeforeBashCall |-> "absent", onAfterBashCall |-> "absent"]
  /\ ExecStart

InitExecVars ==
  /\ execPc = "idle"
  /\ options \in ToolOptions
  /\ ExecStart

(***************************************************************************)
(* A sequence of bash.execute calls on one toolkit with logging enabled.   *)
(***************************************************************************)
MaxCalls == 2

CallCommands == {<<"c">>}
CallFilters == {<<>>, << <<"cat">> >>}
CallOutcomes ==
  {[stdout |-> <<"a", NL>>, stderr |-> <<>>, exitCode |-> 0],
   [stdout |-> <<>>, stderr |-> <<"e">>, exitCode |-> 1]}

\* The requests that carry a caller's command: every executeCommand
\* request but the `mkdir -p` of the log directory.
IsSubmission(req) ==
  req.op = "executeCommand" /\ req.text[1] # <<"mkdir -p \"">>[1]
Submissions(requests) == SelectSeq(requests, IsSubmission)

ExecuteCall == BashExecuteWith(CallCommands, CallFilters)
CallCommandReturns == CommandReturnsWith(CallOutcomes)
CallScriptReturns == ScriptReturnsWith(CallOutcomes)

\* execute has returned and is called again: its locals are fresh, the
\* sandbox, the clock and the options are as the last call left them.
ExecuteAgain ==
  /\ execPc = "done"
  /\ Len(Submissions(calls)) < MaxCalls
  /\ execPc' = "idle"
  /\ input' = [command |-> <<>>, outputFilter |-> <<>>]
  /\ command' = <<>>
  /\ script' = <<>>
  /\ outcome' = NoResult
  /\ raw' = NoResult
  /\ truncated' = NoResult
  /\ invocationLog' = <<>>
  /\ result' = NoResult
  /\ logPath' = <<>>
  /\ afterInput' = <<>>
  /\ response' = <<>>
  /\ UNCHANGED <<options, now, fs, calls, beforeInput, readPath, readOut, readInput,
                 filterResult>>

InitCallVars ==
  /\ execPc = "idle"
  /\ options \in {o \in ToolOptions :
                     /\ o.enableInvocationLog
                     /\ o.maxOutputLength = <<>>
                     /\ o.onBeforeBashCall = "absent"
                     /\ o.onAfterBashCall = "absent"}
  /\ ExecStart

(***************************************************************************)
(* readFile over stored invocation files.  A file ending in .invocation is *)
(* written by bash.execute (directly or by its script) or by anything else *)
(* that writes into the sandbox; it is then read any number of times.      *)
(***************************************************************************)
MaxReads == 2

StoredStdouts == {<<>>, <<"a">>, <<"a", NL>>, <<"b", NL, "a", NL>>}

StoredOutcome(out) == [stdout |-> out, stderr |-> <<"e", NL>>, exitCode |-> 0]

\* Contents that are not invocation logs: a section marker is missing.
InvalidLogs == {<<"x">>, <<STDOUT_MARKER, NL, "a", NL>>, <<"a", NL, STDERR_MARKER, NL>>}

StoredFiles ==
  { [command |-> c,
     content |-> formatInvocationLog(
       [timestamp |-> toISOString(0), command |-> c, exitCode |-> 0,
        stdout |-> out, stderr |-> <<"e", NL>>, outputFilter |-> <<>>])] :
      c \in ExecCommands, out \in StoredStdouts }
  \cup { [command |-> c,
          content |-> ScriptLogContent(c, <<"cat">>, toISOString(0), StoredOutcome(out))] :
           c \in ExecCommands, out \in StoredStdouts }
  \cup { [command |-> <<"c">>, content |-> text] : text \in InvalidLogs }

StoredPath(opts) == PathJoin(logDirOf(opts), generateInvocationFilename(0))

ReadOptions == { o \in ToolOptions :
                   /\ o.maxOutputLength = <<>>
                   /\ o.enableInvocationLog
                   /\ o.onBeforeBashCall = "absent"
                   /\ o.onAfterBashCall = "absent" }

InitReadVars ==
  /\ execPc = "stored"
  /\ options \in ReadOptions
  /\ now = 0
  /\ \E file \in StoredFiles :
       /\ fs = WriteFile(NoFiles, StoredPath(options), file.content)
       /\ command = file.command
  /\ calls = <<>>
  /\ input = [command |-> <<>>, outputFilter |-> <<>>]
  /\ script = <<>>
  /\ outcome = NoResult
  /\ raw = NoResult
  /\ truncated = NoResult
  /\ invocationLog = <<>>
  /\ result = NoResult
  /\ logPath = <<>>
  /\ afterInput = <<>>
  /\ response = <<>>
  /\ readOut = <<>>
  /\ readPath = <<>>
  /\ readInput = NoReadInput
  /\ filterResult = <<>>
  /\ beforeInput = <<>>

\* readFile.execute is called on a stored invocation file.
ReadStored == ReadFileWith(DOMAIN fs, FilterArgs, MaxReads)

(***************************************************************************)
(* Toolkit orchestrator: createBashTool over a caller-supplied sandbox.    *)
(* The upload limit and the batched upload are described by the design     *)
(* document (4.3) and exercised by tool.test.ts; the option is declared in *)
(* types.ts.                                                               *)
(***************************************************************************)
DEFAULT_MAX_FILES == 1000
WRITE_BATCH_SIZE == 20

MaxToolRuns == 1

\* The k ingested files, in ingestion order, by relative path.
IngestedFile(i) == [path |-> <<"file", i>>, content |-> BufferFrom(<<"content", i>>)]
Ingestion(k) == [i \in 1..k |-> IngestedFile(i)]

maxFiles == IF makeOpts.maxFiles = <<>> THEN DEFAULT_MAX_FILES ELSE makeOpts.maxFiles[1]

\* options.destination ?? DEFAULT_DESTINATION
destination ==
  IF makeOpts.destination = <<>> THEN DEFAULT_DESTINATION ELSE makeOpts.destination[1]

\* The file as it is uploaded: its path joined onto the destination.
WithDestination(file) == [file EXCEPT !.path = PathJoin(destination, file.path)]

MakeIdle ==
  /\ makePc = "off"
  /\ makeOpts = [maxFiles |-> <<>>, destination |-> <<>>]
  /\ ingested = <<>>
  /\ streamPos = 0
  /\ batch = <<>>
  /\ writeCalls = <<>>
  /\ makeError = <<>>
  /\ sandboxFiles = {}
  /\ toolRuns = 0

InitMakeVars ==
  /\ makePc = "start"
  /\ makeOpts \in [maxFiles : {<<>>, <<0>>, <<5>>, <<10>>, <<WRITE_BATCH_SIZE>>},
                    destination : {<<>>, << <<"/home/user/app">> >>}]
  /\ ingested \in { Ingestion(k) : k \in 0..MaxIngest }
  /\ streamPos = 0
  /\ batch = <<>>
  /\ writeCalls = <<>>
  /\ makeError = <<>>
  /\ sandboxFiles = {}
  /\ toolRuns = 0

TooMany_OffByOne(count, limit) == limit > 0 /\ count >= limit

TooMany(count, limit) == limit > 0 /\ count > limit

BatchFull_Late(b) == Len(b) > WRITE_BATCH_SIZE

BatchFull(b) == Len(b) >= WRITE_BATCH_SIZE

\* The file count is checked against the limit before anything is written.
CheckLimit ==
  /\ makePc = "start"
  /\ IF TooMany(Len(ingested), maxFiles)
       THEN /\ makeError' = <<[count |-> Len(ingested), limit |-> maxFiles]>>
            /\ makePc' = "failed"
       ELSE /\ makeError' = <<>>
            /\ makePc' = "streaming"
  /\ UNCHANGED <<makeOpts, ingested, streamPos, batch, writeCalls, sandboxFiles, toolRuns>>

\* One file is streamed into the current batch; a full batch is handed to
\* sandbox.writeFiles.
StreamFile ==
  /\ makePc = "streaming"
  /\ streamPos < Len(ingested)
  /\ streamPos' = streamPos + 1
  /\ LET b == Append(batch, WithDestination(ingested[streamPos + 1]))
     IN IF BatchFull(b)
          THEN /\ writeCalls' = Append(writeCalls, b)
               /\ batch' = <<>>
               /\ makePc' = "writing"
          ELSE /\ batch' = b
               /\ UNCHANGED <<writeCalls, makePc>>
  /\ UNCHANGED <<makeOpts, ingested, makeError, sandboxFiles, toolRuns>>

\* sandbox.writeFiles has returned: the sandbox holds the batch; streaming
\* goes on.
BatchWritten ==
  /\ makePc = "writing"
  /\ sandboxFiles' = sandboxFiles \cup Range(writeCalls[Len(writeCalls)])
  /\ makePc' = "streaming"
  /\ UNCHANGED <<makeOpts, ingested, streamPos, batch, writeCalls, makeError, toolRuns>>

\* Variant: the toolkit is returned while the last write is in flight.
Flush_NotAwaited ==
  /\ makePc = "streaming"
  /\ streamPos = Len(ingested)
  /\ IF batch # <<>>
       THEN /\ writeCalls' = Append(writeCalls, batch)
            /\ batch' = <<>>
            /\ makePc' = "created"
       ELSE /\ makePc' = "created"
            /\ UNCHANGED <<writeCalls, batch>>
  /\ UNCHANGED <<makeOpts, ingested, streamPos, makeError, sandboxFiles, toolRuns>>

\* The stream is over: the remainder, if any, is written.
Flush ==
  /\ makePc = "streaming"
  /\ streamPos = Len(ingested)
  /\ IF batch # <<>>
       THEN /\ writeCalls' = Append(writeCalls, batch)
            /\ batch' = <<>>
            /\ makePc' = "flushing"
       ELSE /\ makePc' = "created"
            /\ UNCHANGED <<writeCalls, batch>>
  /\ UNCHANGED <<makeOpts, ingested, streamPos, makeError, sandboxFiles, toolRuns>>

\* The last sandbox.writeFiles has returned; the toolkit is returned.
FlushWritten ==
  /\ makePc = "flushing"
  /\ sandboxFiles' = sandboxFiles \cup Range(writeCalls[Len(writeCalls)])
  /\ makePc' = "created"
  /\ UNCHANGED <<makeOpts, ingested, streamPos, batch, writeCalls, makeError, toolRuns>>

\* A tool of the returned toolkit executes.
ToolExecutes ==
  /\ makePc = "created"
  /\ toolRuns < MaxToolRuns
  /\ toolRuns' = toolRuns + 1
  /\ UNCHANGED <<makePc, makeOpts, ingested, streamPos, batch, writeCalls, makeError,
                 sandboxFiles>>

(***************************************************************************)
(* POSIX path utilities (posix-path.ts).  A path is a sequence of          *)
(* characters.                                                             *)
(***************************************************************************)
MaxBase == 4
MaxRel == 3

PathChars == {"/", ".", "a", "b"}

\* String.prototype.split(sep) for a one-character separator.
SplitOn(text, sep) ==
  LET n == Len(text)
      at == SelectSeq([i \in 1..n |-> i], LAMBDA i : text[i] = sep)
      start(k) == IF k = 1 THEN 1 ELSE at[k - 1] + 1
      stop(k) == IF k > Len(at) THEN n ELSE at[k] - 1
  IN [k \in 1..(Len(at) + 1) |-> SubSeq(text, start(k), stop(k))]

startsWith(text, c) == text # <<>> /\ text[1] = c

DOTDOT == <<".", ".">>

\* The loop of normalizePosixPath over the remaining segments.
RECURSIVE NormalizeSegments(_, _, _)
NormalizeSegments(segments, res, isAbsolute) ==
  IF segments = <<>> THEN res
  ELSE LET segment == Head(segments)
           next == IF segment = DOTDOT
                     THEN IF Len(res) > 0 /\ res[Len(res)] # DOTDOT
                            THEN SubSeq(res, 1, Len(res) - 1)
                          ELSE IF ~isAbsolute THEN Append(res, DOTDOT)
                          ELSE res
                     ELSE Append(res, segment)
       IN NormalizeSegments(Tail(segments), next, isAbsolute)

\* Variant: "." segments are not filtered out.
normalizePosixPath_KeepDot(p) ==
  LET isAbsolute == startsWith(p, "/")
      segments == SelectSeq(SplitOn(p, "/"), LAMBDA seg : seg # <<>>)
      normalized == Join(NormalizeSegments(segments, <<>>, isAbsolute), "/")
  IN IF isAbsolute THEN <<"/">> \o normalized
     ELSE IF normalized # <<>> THEN normalized ELSE <<".">>

normalizePosixPath(p) ==
  LET isAbsolute == startsWith(p, "/")
      segments == SelectSeq(SplitOn(p, "/"), LAMBDA seg : seg # <<>> /\ seg # <<".">>)
      normalized == Join(NormalizeSegments(segments, <<>>, isAbsolute), "/")
  IN IF isAbsolute THEN <<"/">> \o normalized
     ELSE IF normalized # <<>> THEN normalized ELSE <<".">>

\* Variant: the path is joined with the base whether or not it is absolute.
posixResolve_AlwaysJoin(base, relativePath) ==
  normalizePosixPath(base \o <<"/">> \o relativePath)

posixResolve(base, relativePath) ==
  IF startsWith(relativePath, "/") THEN normalizePosixPath(relativePath)
  ELSE normalizePosixPath(base \o <<"/">> \o relativePath)

PathIdle ==
  /\ pathPc = "off"
  /\ pathBase = <<>>
  /\ pathRel = <<>>
  /\ pathIn = <<>>
  /\ pathOut = <<>>

InitPathVars ==
  /\ pathPc = "given"
  /\ pathBase \in SeqsUpTo(PathChars, MaxBase)
  /\ pathRel \in SeqsUpTo(PathChars, MaxRel)
  /\ pathIn = <<>>
  /\ pathOut = <<>>

\* segments.filter(Boolean).join("/")
Joined(segments) == Join(SelectSeq(segments, LAMBDA seg : seg # <<>>), "/")

posixJoin(segments) == normalizePosixPath(Joined(segments))

Resolve ==
  /\ pathPc = "given"
  /\ pathIn' = IF startsWith(pathRel, "/") THEN pathRel
               ELSE pathBase \o <<"/">> \o pathRel
  /\ pathOut' = posixResolve(pathBase, pathRel)
  /\ pathPc' = "resolved"
  /\ UNCHANGED <<pathBase, pathRel, codecVars, loadVars, execVars, makeVars, sbVars, ftVars>>

\* posixJoin(pathBase, pathRel)
JoinPaths ==
  /\ pathPc = "given"
  /\ pathIn' = Joined(<<pathBase, pathRel>>)
  /\ pathOut' = posixJoin(<<pathBase, pathRel>>)
  /\ pathPc' = "joined"
  /\ UNCHANGED <<pathBase, pathRel, codecVars, loadVars, execVars, makeVars, sbVars, ftVars>>

(***************************************************************************)
(* Sandbox detection (tool.ts) and the adapter over a VM backend           *)
(* (sandbox/vercel.ts).  A supplied value is described by what typeof      *)
(* says of it and of the properties the detection looks at.                *)
(***************************************************************************)
TypeOfId == {"undefined", "string", "number"}
TypeOfFn == {"undefined", "function"}

Shape(t, id, run, read, write, exec) ==
  [type |-> t, sandboxId |-> id, runCommand |-> run, readFile |-> read,
   writeFiles |-> write, exec |-> exec]

\* No sandbox, a truthy value that is not an object, and every object.
SandboxValues ==
  {Shape("undefined", "undefined", "undefined", "undefined", "undefined", "undefined"),
   Shape("string", "undefined", "undefined", "undefined", "undefined", "undefined")}
  \cup { Shape("object", id, run, read, write, exec) :
           id \in TypeOfId, run \in TypeOfFn, read \in TypeOfFn,
           write \in TypeOfFn, exec \in TypeOfFn }

isVercelSandbox(obj) ==
  /\ obj.type = "object"
  /\ obj.sandboxId = "string"
  /\ obj.runCommand = "function"
  /\ obj.readFile = "function"
  /\ obj.writeFiles = "function"

isJustBash(obj) == obj.type = "object" /\ obj.exec = "function"

wrapVercelSandbox(obj) == [adapter |-> "vercel", inner |-> obj]
wrapJustBash(obj) == [adapter |-> "justBash", inner |-> obj]
createJustBashSandbox(obj) == [adapter |-> "justBashCreated", inner |-> obj]
\* `options.sandbox as Sandbox`: the supplied object itself.
AsSandbox(obj) == [adapter |-> "none", inner |-> obj]

\* Variant: the virtual-backend signature is tested first.
SelectSandbox_ExecFirst(obj) ==
  IF obj.type # "undefined"
    THEN IF isJustBash(obj) THEN wrapJustBash(obj)
         ELSE IF isVercelSandbox(obj) THEN wrapVercelSandbox(obj)
         ELSE AsSandbox(obj)
    ELSE createJustBashSandbox(obj)

\* createBashTool, step 3.
SelectSandbox(obj) ==
  IF obj.type # "undefined"
    THEN IF isVercelSandbox(obj) THEN wrapVercelSandbox(obj)
         ELSE IF isJustBash(obj) THEN wrapJustBash(obj)
         ELSE AsSandbox(obj)
    ELSE createJustBashSandbox(obj)

\* The backend's files: a path is missing, or holds a (possibly empty) text.
BackendContents == {<<>>, <<"x">>}
BackendFiles == UNION { [ps -> BackendContents] : ps \in SUBSET Paths }

\* No stream has been read: the reads are kept in the order they complete.
NothingRead == <<>>

SandboxIdle ==
  /\ sbPc = "off"
  /\ sbValue = Shape("undefined", "undefined", "undefined", "undefined", "undefined", "undefined")
  /\ sbSandbox = <<>>
  /\ sbFiles = [p \in {} |-> <<>>]
  /\ sbCalls = <<>>
  /\ sbResult = <<>>
  /\ sbInput = <<>>
  /\ sbRun = <<>>
  /\ sbRead = NothingRead

InitSandboxVars ==
  /\ sbPc = "supplied"
  /\ sbValue \in SandboxValues
  /\ sbSandbox = <<>>
  /\ sbFiles \in BackendFiles
  /\ sbCalls = <<>>
  /\ sbResult = <<>>
  /\ sbInput = <<>>
  /\ sbRun = <<>>
  /\ sbRead = NothingRead

\* A fresh VM backend is supplied: it holds no file yet.
InitAdapterVars ==
  /\ sbPc = "supplied"
  /\ sbValue \in {v \in SandboxValues : isVercelSandbox(v)}
  /\ sbSandbox = <<>>
  /\ sbFiles = [p \in {} |-> <<>>]
  /\ sbCalls = <<>>
  /\ sbResult = <<>>
  /\ sbInput = <<>>
  /\ sbRun = <<>>
  /\ sbRead = NothingRead

\* createBashTool wraps the supplied value or uses it as it is.
CreateSandbox ==
  /\ sbPc = "supplied"
  /\ sbSandbox' = <<SelectSandbox(sbValue)>>
  /\ sbPc' = "ready"
  /\ UNCHANGED <<sbValue, sbFiles, sbCalls, sbResult, sbInput, sbRun, sbRead>>

\* streamToString: the chunks of the stream, decoded as UTF-8.
streamToString(stream) == stream

\* Variant: a missing file reads as the empty text.
ReadStreamResult_EmptyForMissing(stream, filePath) ==
  IF stream = <<>> THEN [threw |-> FALSE, value |-> <<>>]
  ELSE [threw |-> FALSE, value |-> streamToString(stream[1])]

\* wrapVercelSandbox.readFile, lines 220-224; null is the empty option.
ReadStreamResult(stream, filePath) ==
  IF stream = <<>> THEN [threw |-> TRUE, value |-> <<"File not found: ", filePath>>]
  ELSE [threw |-> FALSE, value |-> streamToString(stream[1])]

\* wrapVercelSandbox.readFile is called: the backend is asked for a stream.
AdapterReadFile ==
  /\ sbPc = "ready"
  /\ sbSandbox[1].adapter = "vercel"
  /\ \E filePath \in Paths :
       /\ sbCalls' = Append(sbCalls, [op |-> "readFile", path |-> filePath])
       /\ sbInput' = <<filePath>>
  /\ sbPc' = "awaitStream"
  /\ UNCHANGED <<sbValue, sbSandbox, sbFiles, sbResult, sbRun, sbRead>>

\* The backend answers with a stream over the file, or null when it has none.
StreamReturns ==
  /\ sbPc = "awaitStream"
  /\ LET filePath == sbCalls[Len(sbCalls)].path
         stream == IF filePath \in DOMAIN sbFiles THEN <<sbFiles[filePath]>> ELSE <<>>
     IN sbResult' = <<ReadStreamResult(stream, filePath)>>
  /\ sbPc' = "returned"
  /\ UNCHANGED <<sbValue, sbSandbox, sbFiles, sbCalls, sbInput, sbRun, sbRead>>

(***************************************************************************)
(* The VM adapter's writeFiles and executeCommand.  A string is a sequence *)
(* of code points, a Buffer a sequence of bytes.                           *)
(***************************************************************************)
MaxWrite == 2

\* The UTF-8 bytes of one code point below 2^16.
Utf8Bytes(cp) ==
  IF cp < 128 THEN <<cp>>
  ELSE IF cp < 2048 THEN <<192 + (cp \div 64), 128 + (cp % 64)>>
  ELSE <<224 + (cp \div 4096), 128 + ((cp \div 64) % 64), 128 + (cp % 64)>>

\* Buffer.from(string): the UTF-8 encoding of the string.
RECURSIVE BufferFromString(_)
BufferFromString(text) ==
  IF text = <<>> THEN <<>> ELSE Utf8Bytes(Head(text)) \o BufferFromString(Tail(text))

IsContinuation(b) == b >= 128 /\ b < 192
REPLACEMENT == 65533

\* buffer.toString("utf-8"): ill-formed bytes decode to U+FFFD.
RECURSIVE BufferToString(_)
BufferToString(bytes) ==
  IF bytes = <<>> THEN <<>>
  ELSE LET b == Head(bytes)
           n == Len(bytes)
       IN IF b < 128 THEN <<b>> \o BufferToString(Tail(bytes))
          ELSE IF b >= 194 /\ b < 224 /\ n >= 2 /\ IsContinuation(bytes[2])
            THEN <<(b - 192) * 64 + (bytes[2] - 128)>> \o BufferToString(SubSeq(bytes, 3, n))
          ELSE IF b >= 224 /\ b < 240 /\ n >= 3 /\ IsContinuation(bytes[2])
                  /\ IsContinuation(bytes[3])
                  /\ (b = 224 => bytes[2] >= 160) /\ (b = 237 => bytes[2] < 160)
            THEN <<(b - 224) * 4096 + (bytes[2] - 128) * 64 + (bytes[3] - 128)>>
                 \o BufferToString(SubSeq(bytes, 4, n))
          ELSE <<REPLACEMENT>> \o BufferToString(Tail(bytes))

StringContent(units) == [isBuffer |-> FALSE, data |-> units]
BufferContent(bytes) == [isBuffer |-> TRUE, data |-> bytes]

\* Texts with one-, two- and three-byte characters; byte strings that are
\* and are not well-formed UTF-8.
WriteContents ==
  {StringContent(<<>>), StringContent(<<97>>), StringContent(<<233>>),
   StringContent(<<97, 8364>>),
   BufferContent(<<>>), BufferContent(<<137, 80>>), BufferContent(<<255>>),
   BufferContent(<<195, 169>>)}
WriteEntries == [path : Paths, content : WriteContents]

\* Variant: every content goes through a string on its way to the backend.
BackendFilesOf_ReEncode(files) ==
  [i \in 1..Len(files) |->
     [path |-> files[i].path,
      content |-> BufferContent(BufferFromString(
                    IF files[i].content.isBuffer
                      THEN BufferToString(files[i].content.data)
                      ELSE files[i].content.data))]]

\* files.map(...) of wrapVercelSandbox.writeFiles.
BackendFilesOf(files) ==
  [i \in 1..Len(files) |->
     [path |-> files[i].path,
      content |-> IF files[i].content.isBuffer THEN files[i].content
                  ELSE BufferContent(BufferFromString(files[i].content.data))]]

\* wrapVercelSandbox.writeFiles is called: the backend is handed the list.
AdapterWriteFiles ==
  /\ sbPc = "ready"
  /\ sbSandbox[1].adapter = "vercel"
  /\ \E files \in SeqsUpTo(WriteEntries, MaxWrite) :
       /\ sbInput' = <<files>>
       /\ sbCalls' = Append(sbCalls, [op |-> "writeFiles", files |-> BackendFilesOf(files)])
  /\ sbPc' = "awaitWrite"
  /\ UNCHANGED <<sbValue, sbSandbox, sbFiles, sbResult, sbRun, sbRead>>

RECURSIVE StoreAll(_, _)
StoreAll(files, entries) ==
  IF entries = <<>> THEN files
  ELSE StoreAll([p \in DOMAIN files \cup {Head(entries).path} |->
                   IF p = Head(entries).path THEN Head(entries).content.data
                   ELSE files[p]],
                Tail(entries))

\* The backend has stored the files; writeFiles resolves.
WriteReturns ==
  /\ sbPc = "awaitWrite"
  /\ sbFiles' = StoreAll(sbFiles, sbCalls[Len(sbCalls)].files)
  /\ sbResult' = <<[threw |-> FALSE, value |-> <<>>]>>
  /\ sbPc' = "returned"
  /\ UNCHANGED <<sbValue, sbSandbox, sbCalls, sbInput, sbRun, sbRead>>

AdapterCommands == {<<"ls", " ", "-la">>, <<"exit", " ", "1">>}
StreamTexts == {<<>>, <<"t">>}
RunResults == [exitCode : 0..MaxExit, stdout : StreamTexts, stderr : StreamTexts]

\* wrapVercelSandbox.executeCommand is called: runCommand("bash", ["-c", command]).
AdapterExecuteCommand ==
  /\ sbPc = "ready"
  /\ sbSandbox[1].adapter = "vercel"
  /\ \E cmd \in AdapterCommands :
       /\ sbInput' = <<cmd>>
       /\ sbCalls' = Append(sbCalls, [op |-> "runCommand", command |-> "bash",
                                      args |-> <<"-c", cmd>>])
  /\ sbPc' = "awaitRun"
  /\ UNCHANGED <<sbValue, sbSandbox, sbFiles, sbResult, sbRun, sbRead>>

\* runCommand resolves; result.stdout() and result.stderr() are both called.
RunReturns ==
  /\ sbPc = "awaitRun"
  /\ \E res \in RunResults : sbRun' = <<res>>
  /\ sbCalls' = sbCalls \o <<[op |-> "stdout"], [op |-> "stderr"]>>
  /\ sbPc' = "awaitStreams"
  /\ UNCHANGED <<sbValue, sbSandbox, sbFiles, sbResult, sbInput, sbRead>>

HasRead(read, name) == \E i \in 1..Len(read) : read[i].stream = name
\* The text a stream read resolved to, as an option.
ValueRead(read, name) ==
  IF HasRead(read, name)
    THEN <<read[CHOOSE i \in 1..Len(read) : read[i].stream = name].text>>
    ELSE <<>>

\* One of the two pending reads resolves.
StreamRead(name) ==
  /\ sbPc = "awaitStreams"
  /\ ~HasRead(sbRead, name)
  /\ sbRead' = Append(sbRead, [stream |-> name, text |-> sbRun[1][name]])
  /\ UNCHANGED <<sbPc, sbValue, sbSandbox, sbFiles, sbCalls, sbResult, sbInput, sbRun>>

StdoutRead == StreamRead("stdout")
StderrRead == StreamRead("stderr")

\* Variant: the first read to resolve settles the wait.
PromiseAll_Race(read) == HasRead(read, "stdout") \/ HasRead(read, "stderr")

\* await Promise.all([result.stdout(), result.stderr()])
PromiseAll(read) == HasRead(read, "stdout") /\ HasRead(read, "stderr")

\* executeCommand returns { stdout, stderr, exitCode: result.exitCode }.
AdapterReturns ==
  /\ sbPc = "awaitStreams"
  /\ PromiseAll(sbRead)
  /\ sbResult' = <<[threw |-> FALSE,
                    value |-> [stdout |-> ValueRead(sbRead, "stdout"),
                               stderr |-> ValueRead(sbRead, "stderr"),
                               exitCode |-> sbRun[1].exitCode]]>>
  /\ sbPc' = "returned"
  /\ UNCHANGED <<sbValue, sbSandbox, sbFiles, sbCalls, sbInput, sbRun, sbRead>>

(***************************************************************************)
(* The readFile and writeFile tools (tools/read-file.ts,                   *)
(* tools/write-file.ts), created with the toolkit's destination as cwd.    *)
(***************************************************************************)
MaxToolCalls == 1

ToolDestinations == {<<"/", "workspace">>, <<"/", "custom", "/", "dest">>}
ToolPaths ==
  SeqsUpTo(PathChars, 2)
    \cup {<<"/", "a", "/">>, <<".", "/", "b">>, <<"/", "a", "b">>, <<"a", "/", "b">>}
ToolContents == {<<>>, <<"x">>}

FileToolsIdle ==
  /\ ftPc = "off"
  /\ ftCwd = <<>>
  /\ ftFiles = [p \in {} |-> <<>>]
  /\ ftCalls = <<>>
  /\ ftInput = <<>>
  /\ ftResult = <<>>

\* createBashTool({destination}) has returned its tools; one file was
\* uploaded under the destination.
InitFileToolVars ==
  /\ ftPc = "ready"
  /\ ftCwd \in ToolDestinations
  /\ ftFiles = [p \in {ftCwd \o <<"/", "a">>} |-> <<"x">>]
  /\ ftCalls = <<>>
  /\ ftInput = <<>>
  /\ ftResult = <<>>

\* Variant: the path is handed to the sandbox as the caller gave it.
ResolvedPath_Unresolved(base, path) == path

\* const resolvedPath = posixResolve(cwd, path)
ResolvedPath(base, path) == posixResolve(base, path)

\* readFile.execute({path}) up to the sandbox.readFile call.
ReadFileTool ==
  /\ ftPc = "ready"
  /\ Len(ftCalls) < MaxToolCalls
  /\ \E path \in ToolPaths :
       /\ ftInput' = Append(ftInput, [path |-> path])
       /\ ftCalls' = Append(ftCalls, [op |-> "readFile", path |-> ResolvedPath(ftCwd, path)])
  /\ ftResult' = <<>>
  /\ ftPc' = "awaitRead"
  /\ UNCHANGED <<ftCwd, ftFiles>>

\* sandbox.readFile resolves with the content, or rejects for a missing file.
ReadFileToolReturns ==
  /\ ftPc = "awaitRead"
  /\ LET resolvedPath == ftCalls[Len(ftCalls)].path
     IN ftResult' = IF resolvedPath \in DOMAIN ftFiles
                      THEN <<[threw |-> FALSE, value |-> [content |-> ftFiles[resolvedPath]]]>>
                      ELSE <<[threw |-> TRUE, value |-> resolvedPath]>>
  /\ ftPc' = "ready"
  /\ UNCHANGED <<ftCwd, ftFiles, ftCalls, ftInput>>

\* writeFile.execute({path, content}) up to the sandbox.writeFiles call.
WriteFileTool ==
  /\ ftPc = "ready"
  /\ Len(ftCalls) < MaxToolCalls
  /\ \E path \in ToolPaths, content \in ToolContents :
       /\ ftInput' = Append(ftInput, [path |-> path, content |-> content])
       /\ ftCalls' = Append(ftCalls,
             [op |-> "writeFiles",
              files |-> <<[path |-> ResolvedPath(ftCwd, path), content |-> content]>>])
  /\ ftResult' = <<>>
  /\ ftPc' = "awaitWrite"
  /\ UNCHANGED <<ftCwd, ftFiles>>

\* sandbox.writeFiles resolves; the tool returns { success: true }.
WriteFileToolReturns ==
  /\ ftPc = "awaitWrite"
  /\ LET files == ftCalls[Len(ftCalls)].files
     IN ftFiles' = [p \in DOMAIN ftFiles \cup {files[i].path : i \in 1..Len(files)} |->
                     IF \E i \in 1..Len(files) : files[i].path = p
                       THEN files[CHOOSE i \in 1..Len(files) : files[i].path = p].content
                       ELSE ftFiles[p]]
  /\ ftResult' = <<[threw |-> FALSE, value |-> [success |-> TRUE]]>>
  /\ ftPc' = "ready"
  /\ UNCHANGED <<ftCwd, ftCalls, ftInput>>

AuxIdle == PathIdle /\ SandboxIdle /\ FileToolsIdle

(***************************************************************************)
(* Specifications.                                                         *)
(***************************************************************************)
InitCodec == InitCodecVars /\ LoadIdle /\ ExecIdle /\ MakeIdle /\ AuxIdle
NextCodec == Encode \/ Decode
SpecCodec == InitCodec /\ [][NextCodec]_vars

InitParse == InitParseVars /\ LoadIdle /\ ExecIdle /\ MakeIdle /\ AuxIdle
NextParse == Decode
SpecParse == InitParse /\ [][NextParse]_vars

InitLoader == InitLoadVars /\ CodecIdle /\ ExecIdle /\ MakeIdle /\ AuxIdle
NextLoader == StreamInline \/ StreamGlob \/ StreamDir \/ StreamEnd \/ GetFilePaths
SpecLoader == InitLoader /\ [][NextLoader]_vars

InitExec == InitExecVars /\ CodecIdle /\ LoadIdle /\ MakeIdle /\ AuxIdle
NextExec ==
  \/ (BashExecute /\ UNCHANGED <<codecVars, loadVars, makeVars, auxVars>>)
  \/ (CommandReturns /\ UNCHANGED <<codecVars, loadVars, makeVars, auxVars>>)
  \/ (MkdirReturns /\ UNCHANGED <<codecVars, loadVars, makeVars, auxVars>>)
  \/ (WriteFilesReturns /\ UNCHANGED <<codecVars, loadVars, makeVars, auxVars>>)
  \/ (ScriptReturns /\ UNCHANGED <<codecVars, loadVars, makeVars, auxVars>>)
  \/ (SandboxRejects /\ UNCHANGED <<codecVars, loadVars, makeVars, auxVars>>)
  \/ (ReadFile /\ UNCHANGED <<codecVars, loadVars, makeVars, auxVars>>)
  \/ (SedReturns /\ UNCHANGED <<codecVars, loadVars, makeVars, auxVars>>)
  \/ (FallbackReadReturns /\ UNCHANGED <<codecVars, loadVars, makeVars, auxVars>>)
SpecExec == InitExec /\ [][NextExec]_vars

InitCalls == InitCallVars /\ CodecIdle /\ LoadIdle /\ MakeIdle /\ AuxIdle
NextCalls ==
  \/ (ExecuteCall /\ UNCHANGED <<codecVars, loadVars, makeVars, auxVars>>)
  \/ (CallCommandReturns /\ UNCHANGED <<codecVars, loadVars, makeVars, auxVars>>)
  \/ (MkdirReturns /\ UNCHANGED <<codecVars, loadVars, makeVars, auxVars>>)
  \/ (WriteFilesReturns /\ UNCHANGED <<codecVars, loadVars, makeVars, auxVars>>)
  \/ (CallScriptReturns /\ UNCHANGED <<codecVars, loadVars, makeVars, auxVars>>)
  \/ (ExecuteAgain /\ UNCHANGED <<codecVars, loadVars, makeVars, auxVars>>)
SpecCalls == InitCalls /\ [][NextCalls]_vars

InitRead == InitReadVars /\ CodecIdle /\ LoadIdle /\ MakeIdle /\ AuxIdle
NextRead ==
  \/ (ReadStored /\ UNCHANGED <<codecVars, loadVars, makeVars, auxVars>>)
  \/ (FilterReturns /\ UNCHANGED <<codecVars, loadVars, makeVars, auxVars>>)
  \/ (SedReturns /\ UNCHANGED <<codecVars, loadVars, makeVars, auxVars>>)
  \/ (FallbackReadReturns /\ UNCHANGED <<codecVars, loadVars, makeVars, auxVars>>)
SpecRead == InitRead /\ [][NextRead]_vars

InitCreate == InitMakeVars /\ CodecIdle /\ LoadIdle /\ ExecIdle /\ AuxIdle
NextCreate ==
  \/ (CheckLimit /\ UNCHANGED <<codecVars, loadVars, execVars, auxVars>>)
  \/ (StreamFile /\ UNCHANGED <<codecVars, loadVars, execVars, auxVars>>)
  \/ (BatchWritten /\ UNCHANGED <<codecVars, loadVars, execVars, auxVars>>)
  \/ (Flush /\ UNCHANGED <<codecVars, loadVars, execVars, auxVars>>)
  \/ (FlushWritten /\ UNCHANGED <<codecVars, loadVars, execVars, auxVars>>)
  \/ (ToolExecutes /\ UNCHANGED <<codecVars, loadVars, execVars, auxVars>>)
SpecCreate == InitCreate /\ [][NextCreate]_vars

InitPath == InitPathVars /\ SandboxIdle /\ FileToolsIdle /\ CodecIdle /\ LoadIdle /\ ExecIdle /\ MakeIdle
NextPath == Resolve \/ JoinPaths
SpecPath == InitPath /\ [][NextPath]_vars

InitSandbox == InitSandboxVars /\ PathIdle /\ FileToolsIdle /\ CodecIdle /\ LoadIdle /\ ExecIdle /\ MakeIdle
NextSandbox ==
  \/ (CreateSandbox /\ UNCHANGED <<codecVars, loadVars, execVars, makeVars, pathVars, ftVars>>)
  \/ (AdapterReadFile /\ UNCHANGED <<codecVars, loadVars, execVars, makeVars, pathVars, ftVars>>)
  \/ (StreamReturns /\ UNCHANGED <<codecVars, loadVars, execVars, makeVars, pathVars, ftVars>>)
SpecSandbox == InitSandbox /\ [][NextSandbox]_vars

InitAdapter == InitAdapterVars /\ PathIdle /\ FileToolsIdle /\ CodecIdle /\ LoadIdle /\ ExecIdle /\ MakeIdle
NextAdapter ==
  \/ (CreateSandbox /\ UNCHANGED <<codecVars, loadVars, execVars, makeVars, pathVars, ftVars>>)
  \/ (AdapterWriteFiles /\ UNCHANGED <<codecVars, loadVars, execVars, makeVars, pathVars, ftVars>>)
  \/ (WriteReturns /\ UNCHANGED <<codecVars, loadVars, execVars, makeVars, pathVars, ftVars>>)
  \/ (AdapterExecuteCommand /\ UNCHANGED <<codecVars, loadVars, execVars, makeVars, pathVars, ftVars>>)
  \/ (RunReturns /\ UNCHANGED <<codecVars, loadVars, execVars, makeVars, pathVars, ftVars>>)
  \/ (StdoutRead /\ UNCHANGED <<codecVars, loadVars, execVars, makeVars, pathVars, ftVars>>)
  \/ (StderrRead /\ UNCHANGED <<codecVars, loadVars, execVars, makeVars, pathVars, ftVars>>)
  \/ (AdapterReturns /\ UNCHANGED <<codecVars, loadVars, execVars, makeVars, pathVars, ftVars>>)
SpecAdapter == InitAdapter /\ [][NextAdapter]_vars

InitFileTools ==
  InitFileToolVars /\ PathIdle /\ SandboxIdle /\ CodecIdle /\ LoadIdle /\ ExecIdle /\ MakeIdle
NextFileTools ==
  \/ (ReadFileTool /\ UNCHANGED <<codecVars, loadVars, execVars, makeVars, pathVars, sbVars>>)
  \/ (ReadFileToolReturns /\ UNCHANGED <<codecVars, loadVars, execVars, makeVars, pathVars, sbVars>>)
  \/ (WriteFileTool /\ UNCHANGED <<codecVars, loadVars, execVars, makeVars, pathVars, sbVars>>)
  \/ (WriteFileToolReturns /\ UNCHANGED <<codecVars, loadVars, execVars, makeVars, pathVars, sbVars>>)
SpecFileTools == InitFileTools /\ [][NextFileTools]_vars

(***************************************************************************)
(* C1: parseInvocationLog(formatInvocationLog(x)) equals x field for field *)
(* for every log x whose stdout and stderr contain no marker line.         *)
(***************************************************************************)
HasMarkerLine(text) ==
  \E i \in 1..Len(Split(text)) :
    Split(text)[i] = <<STDOUT_MARKER>> \/ Split(text)[i] = <<STDERR_MARKER>>

MarkerFree(log) == ~HasMarkerLine(log.stdout) /\ ~HasMarkerLine(log.stderr)

C1_RoundTrip ==
  (codecPc = "decoded" /\ MarkerFree(codecLog))
    => (codecParsed.ok /\ codecParsed.log = codecLog)

(***************************************************************************)
(* C4: with logging enabled, reading the returned invocationLogPath        *)
(* through readFile with no filter yields the command's complete original  *)
(* stdout, filter or not, truncation or not.                               *)
(***************************************************************************)
C4_LogHoldsFullStdout ==
  execPc = "read" => readOut[1].content = outcome.stdout

(***************************************************************************)
(* C5: truncation returns the output unchanged when its length is at most  *)
(* the limit; otherwise it returns the first `limit` characters followed   *)
(* by a notice naming the stream and the number of characters removed.     *)
(* stdout and stderr are truncated independently.                          *)
(***************************************************************************)
Returned == execPc \in {"done", "awaitSed", "awaitRead", "read"}

NoticeOf(text, limit) == SubSeqFrom(text, limit + 1)

C5_TruncatedAsSpecified(stream) ==
  LET o == raw[stream]
      t == truncated[stream]
      L == maxOutputLength
      notice == NoticeOf(t, L)
  IN /\ Len(o) <= L => t = o
     /\ Len(o) > L =>
          /\ SubSeq(t, 1, L) = SubSeq(o, 1, L)
          /\ Len(notice) >= 7
          /\ SubSeq(notice, 1, 5) = <<NL, NL, "[", stream, " truncated: ">>
          /\ parseInt(SubSeq(notice, 6, Len(notice) - 1)) = Len(o) - L
          /\ notice[Len(notice)] = " characters removed]"

C5_Truncation ==
  Returned => C5_TruncatedAsSpecified("stdout") /\ C5_TruncatedAsSpecified("stderr")

C5_Witness ==
  /\ execPc = "done"
  /\ Len(raw.stdout) = maxOutputLength + 1
  /\ Len(raw.stderr) = maxOutputLength
  /\ truncated.stdout # raw.stdout
  /\ truncated.stderr = raw.stderr

(***************************************************************************)
(* C6: truncation is applied with and without an output filter, and before *)
(* the after-hook: the hook receives the truncated stdout and stderr.      *)
(***************************************************************************)
BoundedRaw ==
  [raw EXCEPT !.stdout = truncateOutput(raw.stdout, maxOutputLength, "stdout"),
              !.stderr = truncateOutput(raw.stderr, maxOutputLength, "stderr")]

C6_TruncationBeforeAfterHook ==
  Returned =>
    /\ options.onAfterBashCall # "absent" =>
         afterInput = <<[command |-> command, result |-> BoundedRaw]>>
    /\ options.onAfterBashCall # "replace" =>
         /\ response[1].stdout = BoundedRaw.stdout
         /\ response[1].stderr = BoundedRaw.stderr
    /\ options.onAfterBashCall = "replace" =>
         response[1].stdout = <<"modified: ">> \o BoundedRaw.stdout

C6_Witness ==
  /\ execPc = "done"
  /\ Truthy(input.outputFilter)
  /\ options.onAfterBashCall = "replace"
  /\ Len(raw.stdout) > maxOutputLength
  /\ afterInput # <<>>
  /\ afterInput[1].result.stdout # raw.stdout

(***************************************************************************)
(* C9: the string submitted to the sandbox for the caller's command runs   *)
(* cd "<destination>" before the command, on the direct path and on the    *)
(* output-filter path.                                                     *)
(***************************************************************************)
IsPrefix(p, text) == Len(p) <= Len(text) /\ SubSeq(text, 1, Len(p)) = p

IsCommentOrBlank(line) == line = <<>> \/ IsPrefix(<<"# Run command and capture output">>, line)

FirstStatement(text) ==
  LET ls == Split(text)
      i == CHOOSE k \in 1..Len(ls) :
             /\ ~IsCommentOrBlank(ls[k])
             /\ \A j \in 1..(k - 1) : IsCommentOrBlank(ls[j])
  IN ls[i]

C9_RunsInDestination ==
  execPc \in {"awaitExec", "awaitScript"} =>
    /\ calls[Len(calls)].op = "executeCommand"
    /\ IsPrefix(<<"cd \"">> \o options.cwd \o <<"\" && ">> \o command,
                FirstStatement(calls[Len(calls)].text))

C9_Witness ==
  /\ execPc = "awaitScript"
  /\ options.cwd = <<"/app">>
  /\ options.onBeforeBashCall = "replace"
  /\ IsPrefix(<<"cd \"", "/app", "\" && ">> \o ReplacementCommand,
              FirstStatement(calls[Len(calls)].text))

(***************************************************************************)
(* C10: the value returned by bash.execute carries invocationLogPath if    *)
(* and only if logging is enabled, with and without a filter and whatever  *)
(* the after-hook returns; when present it is the path of the log file     *)
(* written for that call.                                                  *)
(***************************************************************************)
C10_LogPathIffLogging ==
  execPc = "done" =>
    /\ response[1].invocationLogPath # <<>> <=> options.enableInvocationLog
    /\ response[1].invocationLogPath # <<>> =>
         /\ DOMAIN fs = {response[1].invocationLogPath[1]}
         /\ ~Truthy(input.outputFilter) =>
              /\ calls[Len(calls)].op = "writeFiles"
              /\ calls[Len(calls)].files[1].path = response[1].invocationLogPath[1]
    /\ response[1].invocationLogPath = <<>> => fs = NoFiles

C10_Witness ==
  /\ execPc = "done"
  /\ options.enableInvocationLog
  /\ options.onAfterBashCall = "replace"
  /\ Truthy(input.outputFilter)
  /\ response[1].invocationLogPath # <<>>
  /\ response[1].invocationLogPath[1] \in DOMAIN fs

(***************************************************************************)
(* C7: with k ingested files and limit m (default 1000), createBashTool    *)
(* fails when m > 0 and k > m, the error names k and m and no write call   *)
(* has been made; when k <= m, or m = 0, it does not fail for this reason. *)
(***************************************************************************)
C7_LimitBeforeWrites ==
  LET k == Len(ingested)
      m == maxFiles
  IN /\ makePc = "failed" =>
          /\ m > 0 /\ k > m
          /\ makeError = <<[count |-> k, limit |-> m]>>
          /\ writeCalls = <<>>
     /\ makePc \notin {"off", "start", "failed"} => (k <= m \/ m = 0) /\ makeError = <<>>
     /\ (m > 0 /\ k > m) => writeCalls = <<>>

C7_Witness ==
  /\ makePc = "failed"
  /\ makeOpts.maxFiles = <<10>>
  /\ Len(ingested) = 11
  /\ makeError = <<[count |-> 11, limit |-> 10]>>
  /\ writeCalls = <<>>

(***************************************************************************)
(* C8: uploading n files to a caller-supplied sandbox issues exactly       *)
(* ceil(n/20) writeFiles calls; every call but the last carries 20         *)
(* entries, the last the remainder; the batches concatenated in call order *)
(* are the ingestion sequence.                                             *)
(***************************************************************************)
RECURSIVE Flatten(_)
Flatten(seqs) == IF seqs = <<>> THEN <<>> ELSE Head(seqs) \o Flatten(Tail(seqs))

CeilDiv(n, d) == (n + d - 1) \div d

C8_Batches ==
  makePc = "created" =>
    LET n == Len(ingested)
        c == Len(writeCalls)
    IN /\ c = CeilDiv(n, 20)
       /\ \A i \in 1..(c - 1) : Len(writeCalls[i]) = 20
       /\ c > 0 => Len(writeCalls[c]) = n - 20 * (c - 1)
       /\ Flatten(writeCalls) = [i \in 1..n |-> WithDestination(ingested[i])]

C8_Witness ==
  /\ makePc = "created"
  /\ Len(ingested) = 45
  /\ Len(writeCalls) = 3
  /\ Len(writeCalls[1]) = 20 /\ Len(writeCalls[2]) = 20 /\ Len(writeCalls[3]) = 5

(***************************************************************************)
(* C2: streamFiles emits each path at most once; a path present inline and *)
(* in the directory carries the inline content; a directory path that is   *)
(* not inline carries its on-disk content.                                 *)
(***************************************************************************)
InlineKeys == Range(IF optFiles = <<>> THEN <<>> ELSE ObjectKeys(optFiles[1]))
InlineValue(p) ==
  LET es == InlineEntries
  IN es[CHOOSE i \in 1..Len(es) : es[i].key = p].value

C2_Precedence ==
  /\ \A i, j \in 1..Len(yielded) : i # j => yielded[i].path # yielded[j].path
  /\ \A i \in 1..Len(yielded) :
       /\ yielded[i].path \in InlineKeys
            => yielded[i].content = BufferFrom(InlineValue(yielded[i].path))
       /\ yielded[i].path \notin InlineKeys
            => yielded[i].content = DiskBytes(yielded[i].path)
  /\ loadPc \in {"streamed", "done"} =>
       \A p \in InlineKeys \cup Range(FoundPaths) :
         \E i \in 1..Len(yielded) : yielded[i].path = p

C2_Witness ==
  /\ loadPc = "streamed"
  /\ \E p \in InlineKeys \cap Range(FoundPaths) :
       \E i \in 1..Len(yielded) :
         yielded[i].path = p /\ yielded[i].content = BufferFrom(InlineValue(p))
  /\ \E p \in Range(FoundPaths) \ InlineKeys :
       \E i \in 1..Len(yielded) : yielded[i].path = p

(***************************************************************************)
(* C3: the set of paths returned by getFilePaths equals the set of paths   *)
(* of the entries streamFiles yields for the same options.                 *)
(***************************************************************************)
C3_SamePathSet ==
  loadPc = "done" => Range(filePaths) = { yielded[i].path : i \in 1..Len(yielded) }

C3_Witness ==
  /\ loadPc = "done"
  /\ InlineKeys \cap Range(FoundPaths) # {}
  /\ InlineKeys \ Range(FoundPaths) # {}
  /\ Range(FoundPaths) \ InlineKeys # {}
  /\ Len(filePaths) = Len(yielded)

(***************************************************************************)
(* C11: reading an .invocation file through readFile, with or without a    *)
(* filter, never submits the logged command again: every request it makes  *)
(* is the sed extraction over the stored file, that extraction piped       *)
(* through the filter, or a read of the file; the stored file stays as it  *)
(* was, so it can be re-filtered repeatedly.                               *)
(***************************************************************************)
C11_NeverReruns ==
  execPc \in {"stored", "awaitFilter", "awaitSed", "awaitRead", "read"} =>
    LET path == StoredPath(options)
    IN /\ \A i \in 1..Len(calls) :
            /\ \/ calls[i] = [op |-> "readFile", text |-> path, files |-> <<>>]
               \/ calls[i] = Request("executeCommand", SedCommandText(options.cwd, path))
               \/ \E f \in FilterTexts :
                    calls[i] = Request("executeCommand",
                                 SedCommandText(options.cwd, path) \o <<" | ">> \o f)
            /\ ~IsPrefix(DirectCommandText(options.cwd, command), calls[i].text)
       /\ DOMAIN fs = {path}
       /\ \E file \in StoredFiles : file.command = command /\ file.content = fs[path]

C11_Witness ==
  /\ execPc = "read"
  /\ Len(readOut) = 2
  /\ Len(calls) = 2
  /\ calls[1].text = SedCommandText(options.cwd, readPath) \o <<" | ", "head -1">>
  /\ calls[2].text = SedCommandText(options.cwd, readPath) \o <<" | ", "grep ", "'", "a", "'">>
  /\ readOut[1].content = <<"b", NL>>
  /\ readOut[2].content = <<"a", NL>>

(***************************************************************************)
(* C17: readFile on a path ending in .invocation whose content is not a    *)
(* valid invocation log (a section marker is missing) returns the file's   *)
(* raw content unchanged.                                                  *)
(***************************************************************************)
C17_InvalidLogReadRaw ==
  (/\ execPc = "read"
   /\ ~Truthy(readInput.outputFilter)
   /\ ~parseInvocationLog(fs[readPath]).ok)
    => readOut[Len(readOut)].content = fs[readPath]

(***************************************************************************)
(* C12: on the output-filter path the exit code returned by bash.execute   *)
(* is the filter's exit code when the filter exits non-zero and the        *)
(* command's exit code otherwise.                                          *)
(***************************************************************************)
FilterOutcome == FilterRun(input.outputFilter[1], outcome.stdout)

C13_CommandStderrThenFilterStderr ==
  (execPc = "done" /\ Truthy(input.outputFilter) /\ FilterOutcome.exitCode # 0) =>
    raw.stderr = outcome.stderr \o FilterOutcome.stderr

(***************************************************************************)
(* C14: posixResolve(base, p) is the normalized p, whatever the base, when *)
(* p starts with "/"; otherwise it is the normalization of base "/" p.     *)
(* resolve("/a", "./b") = "/a/b" and resolve("/a/b", "..") = "/a".         *)
(***************************************************************************)
C14_Resolve ==
  pathPc = "resolved" =>
    /\ startsWith(pathRel, "/") => pathOut = normalizePosixPath(pathRel)
    /\ ~startsWith(pathRel, "/") =>
         pathOut = normalizePosixPath(pathBase \o <<"/">> \o pathRel)
    /\ (pathBase = <<"/", "a">> /\ pathRel = <<".", "/", "b">>)
         => pathOut = <<"/", "a", "/", "b">>
    /\ (pathBase = <<"/", "a", "/", "b">> /\ pathRel = <<".", ".">>)
         => pathOut = <<"/", "a">>

C14_Witness ==
  /\ pathPc = "resolved"
  /\ pathBase = <<"/", "a", "/", "b">>
  /\ pathRel = <<"/", "b", "/">>
  /\ pathOut = <<"/", "b">>

(***************************************************************************)
(* C15: a supplied sandbox value is classified by a fixed priority: the VM *)
(* signature (string sandboxId, runCommand, readFile and writeFiles        *)
(* functions) first, then the virtual signature (an exec function),        *)
(* otherwise the value is used as it is.  A value matching both is wrapped *)
(* as the VM backend; a value matching neither is the toolkit's sandbox.   *)
(***************************************************************************)
MatchesVM ==
  /\ sbValue.type = "object"
  /\ sbValue.sandboxId = "string"
  /\ sbValue.runCommand = "function"
  /\ sbValue.readFile = "function"
  /\ sbValue.writeFiles = "function"

MatchesVirtual == sbValue.type = "object" /\ sbValue.exec = "function"

C15_DetectionPriority ==
  (sbPc # "supplied" /\ sbPc # "off" /\ sbValue.type # "undefined") =>
    /\ sbSandbox[1].inner = sbValue
    /\ MatchesVM => sbSandbox[1].adapter = "vercel"
    /\ (~MatchesVM /\ MatchesVirtual) => sbSandbox[1].adapter = "justBash"
    /\ (~MatchesVM /\ ~MatchesVirtual) => sbSandbox[1].adapter = "none"

C15_Witness ==
  /\ sbPc = "ready"
  /\ MatchesVM
  /\ MatchesVirtual
  /\ sbSandbox = <<[adapter |-> "vercel", inner |-> sbValue]>>

(***************************************************************************)
(* C20: the VM adapter's readFile raises a File not found error naming the *)
(* path whenever the backend returns a null stream; a missing file never   *)
(* reads as the empty string, so it differs from an existing empty file.   *)
(***************************************************************************)
C20_MissingFileThrows ==
  sbPc = "returned" =>
    LET filePath == sbCalls[Len(sbCalls)].path
    IN /\ filePath \notin DOMAIN sbFiles =>
            sbResult = <<[threw |-> TRUE, value |-> <<"File not found: ", filePath>>]>>
       /\ filePath \in DOMAIN sbFiles =>
            sbResult = <<[threw |-> FALSE, value |-> sbFiles[filePath]]>>

C20_Witness ==
  /\ sbPc = "returned"
  /\ sbCalls[Len(sbCalls)].path \notin DOMAIN sbFiles
  /\ \E p \in DOMAIN sbFiles : sbFiles[p] = <<>>
  /\ sbResult[1].threw

(***************************************************************************)
(* C16: parseInvocationLog fails on every text that lacks a line equal to  *)
(* ---STDOUT--- or lacks a line equal to ---STDERR---, and succeeds on     *)
(* every text holding both, whatever the order of its header lines; an     *)
(* empty stdout or stderr section gives empty content, not a failure.      *)
(***************************************************************************)
HasLine(text, line) == \E i \in 1..Len(Split(text)) : Split(text)[i] = line

\* The lines after the last marker line, when that line is `marker`.
TailSectionEmpty(text, marker) ==
  LET ls == Split(text)
  IN ls[Len(ls)] = <<marker>>

C16_MarkersRequired ==
  codecPc = "decoded" =>
    /\ codecParsed.ok <=> (/\ HasLine(codecText, <<STDOUT_MARKER>>)
                           /\ HasLine(codecText, <<STDERR_MARKER>>))
    /\ (codecParsed.ok /\ TailSectionEmpty(codecText, STDERR_MARKER)
          /\ Len(SelectSeq(Split(codecText), LAMBDA l : l = <<STDERR_MARKER>>)) = 1)
         => codecParsed.log.stderr = <<>>
    /\ (codecParsed.ok /\ TailSectionEmpty(codecText, STDOUT_MARKER)
          /\ Len(SelectSeq(Split(codecText), LAMBDA l : l = <<STDOUT_MARKER>>)) = 1)
         => codecParsed.log.stdout = <<>>

C16_Witness ==
  /\ codecPc = "decoded"
  /\ codecText = <<HASH, "exitCode", COLON, "1", NL, HASH, "command", COLON, "c", NL,
                   STDOUT_MARKER, NL, STDERR_MARKER>>
  /\ codecParsed.ok
  /\ codecParsed.log.command = <<"c">>
  /\ codecParsed.log.exitCode = 1
  /\ codecParsed.log.stdout = <<>>
  /\ codecParsed.log.stderr = <<>>

(***************************************************************************)
(* C18: the before-hook, if set, is called once with the caller's original *)
(* command; the command submitted to the sandbox and passed to the         *)
(* after-hook is the hook's replacement when it returns one, the original  *)
(* command otherwise; the returned result is the after-hook's replacement  *)
(* when it returns one and the truncated sandbox result otherwise.         *)
(***************************************************************************)
ExpectedCommand ==
  IF options.onBeforeBashCall = "replace" THEN ReplacementCommand ELSE input.command

C18_Hooks ==
  /\ execPc \in {"awaitExec", "awaitScript", "awaitMkdir", "awaitWrite", "done"} =>
       /\ beforeInput = IF options.onBeforeBashCall = "absent" THEN <<>>
                        ELSE <<[command |-> input.command]>>
       /\ command = ExpectedCommand
       /\ IsPrefix(<<"cd \"">> \o options.cwd \o <<"\" && ">> \o ExpectedCommand,
                   FirstStatement(calls[1].text))
  /\ execPc = "done" =>
       /\ options.onAfterBashCall = "absent" => afterInput = <<>>
       /\ options.onAfterBashCall # "absent" =>
            /\ Len(afterInput) = 1
            /\ afterInput[1].command = ExpectedCommand
       /\ LET returned == [stdout |-> response[1].stdout, stderr |-> response[1].stderr,
                           exitCode |-> response[1].exitCode]
          IN IF options.onAfterBashCall = "replace"
               THEN returned = [BoundedRaw EXCEPT !.stdout = <<"modified: ">> \o @]
               ELSE returned = BoundedRaw

C18_Witness ==
  /\ execPc = "done"
  /\ options.onBeforeBashCall = "replace"
  /\ options.onAfterBashCall = "replace"
  /\ input.command = <<"c", "'">>
  /\ beforeInput = <<[command |-> <<"c", "'">>]>>
  /\ afterInput[1].command = ReplacementCommand
  /\ response[1].stdout = <<"modified: ", "a">>

(***************************************************************************)
(* C19: when createBashTool resolves, every ingested file has been written *)
(* to the sandbox at the destination joined with its relative path; no     *)
(* tool of the returned toolkit executes before the last ingestion write   *)
(* has completed.                                                          *)
(***************************************************************************)
AllUploaded ==
  \A i \in 1..Len(ingested) :
    [path |-> destination \o <<"/">> \o ingested[i].path,
     content |-> ingested[i].content] \in sandboxFiles

PathReturned == pathPc \in {"resolved", "joined"}

SegmentsOf(p) ==
  LET body == IF startsWith(p, "/") THEN Tail(p) ELSE p
  IN IF body = <<>> THEN <<>> ELSE SplitOn(body, "/")

LeadingRunOnly(segs) ==
  \A i \in 1..Len(segs) : segs[i] = DOTDOT => \A j \in 1..i : segs[j] = DOTDOT

NormalForm(out, absolute, dotAllowed) ==
  LET segs == SegmentsOf(out)
  IN /\ out # <<>>
     /\ startsWith(out, "/") <=> absolute
     /\ (dotAllowed /\ ~absolute /\ out = <<".">>)
          \/ \A i \in 1..Len(segs) : segs[i] # <<>> /\ segs[i] # <<".">>
     /\ absolute => \A i \in 1..Len(segs) : segs[i] # DOTDOT
     /\ ~absolute => LeadingRunOnly(segs)
     /\ posixJoin(<<out>>) = out
     /\ absolute => posixResolve(<<"/", "a">>, out) = out

C30_NormalForm ==
  PathReturned => NormalForm(pathOut, startsWith(pathIn, "/"), FALSE)

C30_NormalFormOrDot ==
  PathReturned => NormalForm(pathOut, startsWith(pathIn, "/"), TRUE)

C30_Witness ==
  /\ pathPc = "joined"
  /\ pathBase = <<"/", ".", ".">>
  /\ pathRel = <<".", "/", "a">>
  /\ pathOut = <<"/", "a">>

C30_WitnessDot ==
  /\ pathPc = "resolved"
  /\ pathBase = <<"a">>
  /\ pathRel = <<".", ".">>
  /\ pathOut = <<".">>
(***************************************************************************)
(* C21: the VM adapter's writeFiles makes one backend write call with the  *)
(* same paths in the same order; a Buffer entry is handed over as the very *)
(* same bytes, a string entry as its UTF-8 encoding (a Buffer whose        *)
(* decoding is the string, one, two or three bytes per character).         *)
(***************************************************************************)
WriteCalled == sbPc \in {"awaitWrite", "returned"} /\ sbInput # <<>> /\ sbCalls # <<>>
                 /\ sbCalls[1].op = "writeFiles"

RECURSIVE Utf8Length(_)
Utf8Length(text) ==
  IF text = <<>> THEN 0
  ELSE (IF Head(text) < 128 THEN 1 ELSE IF Head(text) < 2048 THEN 2 ELSE 3)
       + Utf8Length(Tail(text))

C21_WriteFilesPassThrough ==
  WriteCalled =>
    LET given == sbInput[1]
        passed == sbCalls[1].files
    IN /\ Len(sbCalls) = 1
       /\ Len(passed) = Len(given)
       /\ \A i \in 1..Len(given) :
            /\ passed[i].path = given[i].path
            /\ passed[i].content.isBuffer
            /\ given[i].content.isBuffer => passed[i].content.data = given[i].content.data
            /\ ~given[i].content.isBuffer =>
                 /\ BufferToString(passed[i].content.data) = given[i].content.data
                 /\ Len(passed[i].content.data) = Utf8Length(given[i].content.data)
                 /\ \A k \in 1..Len(passed[i].content.data) :
                      passed[i].content.data[k] \in 0..255
       /\ (sbPc = "returned" /\ given # <<>>) =>
            sbFiles[given[Len(given)].path] = passed[Len(given)].content.data

C21_Witness ==
  /\ sbPc = "returned"
  /\ sbInput = << << [path |-> 2, content |-> BufferContent(<<255>>)],
                     [path |-> 1, content |-> StringContent(<<97, 8364>>)] >> >>
  /\ sbCalls = << [op |-> "writeFiles",
                   files |-> << [path |-> 2, content |-> BufferContent(<<255>>)],
                                [path |-> 1, content |-> BufferContent(<<97, 226, 130, 172>>)] >>] >>
(***************************************************************************)
(* C22: the VM adapter's executeCommand calls runCommand("bash", ["-c",    *)
(* command]) once, with the whole command as one argument; when it has     *)
(* returned, the stdout read and the stderr read have both completed, in   *)
(* whichever order, and the result holds the two texts and the backend's   *)
(* exit code as they are, for every exit code.                             *)
(***************************************************************************)
CommandReturned == sbPc = "returned" /\ sbCalls # <<>> /\ sbCalls[1].op = "runCommand"

C22_BothStreamsAwaited ==
  CommandReturned =>
    /\ sbCalls = <<[op |-> "runCommand", command |-> "bash", args |-> <<"-c", sbInput[1]>>],
                   [op |-> "stdout"], [op |-> "stderr"]>>
    /\ {sbRead[i].stream : i \in 1..Len(sbRead)} = {"stdout", "stderr"}
    /\ sbResult[1].threw = FALSE
    /\ sbResult[1].value = [stdout |-> <<sbRun[1].stdout>>,
                            stderr |-> <<sbRun[1].stderr>>,
                            exitCode |-> sbRun[1].exitCode]

C22_Witness ==
  /\ CommandReturned
  /\ sbRun[1].exitCode = 1
  /\ sbRead = <<[stream |-> "stderr", text |-> <<"t">>], [stream |-> "stdout", text |-> <<>>]>>
  /\ sbResult[1].value.stderr = << <<"t">> >>

C22_WitnessStdoutFirst ==
  /\ CommandReturned
  /\ sbRun[1].exitCode = 0
  /\ sbRead[1].stream = "stdout"
(***************************************************************************)
(* C23: the readFile and writeFile tools resolve their path against the    *)
(* toolkit's destination: a relative path is read or written at the        *)
(* destination joined with it, an absolute path is used without the        *)
(* destination, and writeFile makes exactly one write call with exactly    *)
(* one entry, the resolved path and the given content.                     *)
(* C23_AbsoluteUnchanged states that an absolute path reaches the sandbox  *)
(* as the very text the caller gave; C23_PathsResolved that it reaches the *)
(* sandbox in its normalized form.                                         *)
(***************************************************************************)
ToolCalled == ftInput # <<>>

\* The path the i-th tool call handed to the sandbox.
PathUsed(i) ==
  IF ftCalls[i].op = "readFile" THEN ftCalls[i].path ELSE ftCalls[i].files[1].path

GivenPath(i) == ftInput[i].path

ToolCallShape ==
  /\ Len(ftCalls) = Len(ftInput)
  /\ \A i \in 1..Len(ftInput) :
       /\ ~startsWith(GivenPath(i), "/") => PathUsed(i) = posixJoin(<<ftCwd, GivenPath(i)>>)
       /\ ftCalls[i].op = "writeFiles" =>
            /\ Len(ftCalls[i].files) = 1
            /\ ftCalls[i].files[1].content = ftInput[i].content
  /\ LET n == Len(ftInput)
     IN ftResult # <<>> =>
          /\ ftCalls[n].op = "writeFiles" =>
               /\ ftResult[1] = [threw |-> FALSE, value |-> [success |-> TRUE]]
               /\ ftFiles[PathUsed(n)] = ftInput[n].content
          /\ ftCalls[n].op = "readFile" =>
               IF PathUsed(n) \in DOMAIN ftFiles
                 THEN ftResult[1].value.content = ftFiles[PathUsed(n)]
                 ELSE ftResult[1].threw

C23_AbsoluteUnchanged ==
  ToolCalled =>
    /\ ToolCallShape
    /\ \A i \in 1..Len(ftInput) :
         startsWith(GivenPath(i), "/") => PathUsed(i) = GivenPath(i)

C23_PathsResolved ==
  ToolCalled =>
    /\ ToolCallShape
    /\ \A i \in 1..Len(ftInput) :
         /\ startsWith(GivenPath(i), "/") => PathUsed(i) = normalizePosixPath(GivenPath(i))
         /\ GivenPath(i) = <<"/", "a", "/">> => PathUsed(i) = <<"/", "a">>
         /\ GivenPath(i) = <<"/", "a", "b">> => PathUsed(i) = <<"/", "a", "b">>

C23_Witness ==
  /\ ftPc = "ready"
  /\ ftCwd = <<"/", "custom", "/", "dest">>
  /\ ftInput = <<[path |-> <<".", "/", "b">>, content |-> <<"x">>]>>
  /\ ftCalls = <<[op |-> "writeFiles",
                  files |-> <<[path |-> <<"/", "custom", "/", "dest", "/", "b">>,
                               content |-> <<"x">>]>>]>>
  /\ ftFiles[<<"/", "custom", "/", "dest", "/", "b">>] = <<"x">>

C23_WitnessRead ==
  /\ ftPc = "ready"
  /\ ftCwd = <<"/", "workspace">>
  /\ ftInput = <<[path |-> <<"a">>]>>
  /\ ftResult = <<[threw |-> FALSE, value |-> [content |-> <<"x">>]]>>
(***************************************************************************)
(* C24: for every invocation log bash.execute has written, with or without *)
(* an output filter, the file's name is the timestamp stored in the log's  *)
(* first header line with every ":" replaced by "-", followed by           *)
(* ".invocation".                                                          *)
(***************************************************************************)
LogWritten == execPc = "done" /\ logPath # <<>> /\ logPath[1] \in DOMAIN fs

\* The text after "# timestamp: " on the first line of a log file.
TimestampIn(content) == SubSeqFrom(Split(content)[1], 4)

C24_NameIsTimestamp ==
  LogWritten =>
    logPath[1] = PathJoin(logDirOf(options),
                   ReplaceAll(TimestampIn(fs[logPath[1]]), {":"}, <<"-">>)
                     \o <<".invocation">>)
(***************************************************************************)
(* C25: across a sequence of bash.execute calls on one toolkit with        *)
(* logging enabled, every call writes its log at a path no earlier call    *)
(* used: a log file, once written, stays in the sandbox with the content   *)
(* it was written with.                                                    *)
(***************************************************************************)
C25_LogsNeverOverwritten ==
  [][\A p \in DOMAIN fs : p \in DOMAIN fs' /\ fs'[p] = fs[p]]_vars
(***************************************************************************)
(* C26: every log file bash.execute has produced, through                  *)
(* formatInvocationLog or through the filter script, has the two section   *)
(* markers each alone on a line, parseInvocationLog succeeds on it, and    *)
(* the parsed stdout and stderr are the command's, whatever the command    *)
(* printed (nothing, or text with no final newline, included); output that  *)
(* itself holds a marker line is left aside here.                          *)
(***************************************************************************)
C26_LogsParseBack ==
  (LogWritten /\ MarkerFree(outcome)) =>
    LET content == fs[logPath[1]]
        parsed == parseInvocationLog(content)
    IN /\ HasLine(content, <<STDOUT_MARKER>>)
       /\ HasLine(content, <<STDERR_MARKER>>)
       /\ parsed.ok
       /\ parsed.log.stdout = outcome.stdout
       /\ parsed.log.stderr = outcome.stderr
(***************************************************************************)
(* C27: on the output-filter path the log's command field, as              *)
(* parseInvocationLog decodes it, is the command text that was executed,   *)
(* and its outputFilter field is the filter text that was requested, for   *)
(* single-line texts with or without single-quote characters.  Logs the    *)
(* parser rejects are left aside.                                          *)
(***************************************************************************)
C27_FieldsDecodeToTexts ==
  (LogWritten /\ Truthy(input.outputFilter) /\ parseInvocationLog(fs[logPath[1]]).ok) =>
    LET parsed == parseInvocationLog(fs[logPath[1]])
    IN /\ parsed.log.command = command
       /\ parsed.log.outputFilter = <<input.outputFilter[1]>>
(***************************************************************************)
(* C28: with an output filter and logging, the exitCode header of the log  *)
(* is the original command's exit code, also when the filter fails and     *)
(* the caller is given the filter's exit code.                             *)
(***************************************************************************)
ExitCodeLines(content) ==
  SelectSeq(Split(content),
            LAMBDA line : Len(line) >= 3 /\ SubSeq(line, 1, 3) = <<HASH, "exitCode", COLON>>)

C28_LoggedExitIsCommands ==
  (LogWritten /\ Truthy(input.outputFilter)) =>
    LET recorded == ExitCodeLines(fs[logPath[1]])
    IN /\ Len(recorded) = 1
       /\ parseInt(SubSeqFrom(recorded[1], 4)) = outcome.exitCode

C28_Witness ==
  /\ LogWritten
  /\ input.outputFilter = << <<"nosuchfilter">> >>
  /\ outcome.exitCode = 1
  /\ raw.exitCode = 127
  /\ ExitCodeLines(fs[logPath[1]]) = << <<HASH, "exitCode", COLON, "1">> >>
(***************************************************************************)
(* C29: a bash.execute call submits the (post-hook) command exactly once   *)
(* and sends nothing again after a request failed.  With an output filter  *)
(* it makes one executeCommand call and no writeFiles call, logging or     *)
(* not; with no filter and no logging it makes one executeCommand call and *)
(* no writeFiles call; with no filter and logging the log is handed to     *)
(* writeFiles only after the command has completed (and mkdir after it).   *)
(***************************************************************************)
InExecute ==
  execPc \in {"awaitExec", "awaitScript", "awaitMkdir", "awaitWrite", "done", "failed"}

\* The text holds the command as a contiguous part.
Contains(text, part) ==
  \/ part = <<>>
  \/ \E i \in 1..(Len(text) - Len(part) + 1) :
       text[i] = part[1] /\ SubSeq(text, i, i + Len(part) - 1) = part

WriteCalls(requests) == SelectSeq(requests, LAMBDA req : req.op = "writeFiles")

C29_SubmittedOnce ==
  InExecute =>
    /\ Len(Submissions(calls)) = 1
    /\ calls[1] = Submissions(calls)[1]
    /\ Contains(calls[1].text, command)
    /\ Truthy(input.outputFilter) => Len(calls) = 1
    /\ (~Truthy(input.outputFilter) /\ ~options.enableInvocationLog) => Len(calls) = 1
    /\ (~Truthy(input.outputFilter) /\ options.enableInvocationLog) =>
         /\ Len(calls) <= 3
         /\ Len(WriteCalls(calls)) <= 1
         /\ \A i \in 1..Len(calls) :
              calls[i].op = "writeFiles" =>
                /\ i = 3
                /\ raw = outcome
                /\ invocationLog # <<>> /\ invocationLog[1].stdout = outcome.stdout
                /\ calls[2] = Request("executeCommand", MkdirText(logDirOf(options)))
         /\ execPc = "awaitExec" => Len(calls) = 1

C29_Witness ==
  /\ execPc = "failed"
  /\ options.enableInvocationLog
  /\ options.onBeforeBashCall = "replace"
  /\ ~Truthy(input.outputFilter)
  /\ Len(calls) = 3
  /\ calls[1] = Request("executeCommand", DirectCommandText(cwd, ReplacementCommand))
  /\ calls[3].op = "writeFiles"

C29_WitnessFilter ==
  /\ execPc = "done"
  /\ options.enableInvocationLog
  /\ Truthy(input.outputFilter)
  /\ logPath # <<>> /\ logPath[1] \in DOMAIN fs
  /\ Len(calls) = 1
====
